---- MODULE Spec2Model ----
(***************************************************************************)
(* epub2audio: the table-of-contents builder (reformat/extract.py), the    *)
(* stages that read and rewrite the manifest json/toc.json, and the        *)
(* audiobook assembly (reformat/create_audiobook.py).                      *)
(*                                                                         *)
(* A Python str is a sequence of one-character strings; an optional value  *)
(* (str | None, int | None) is None == <<>> or Some(v) == <<v>>.           *)
(***************************************************************************)
EXTENDS Integers, Sequences, FiniteSets, TLC

VARIABLES
    ncx,        \* the extracted tree as generate_toc sees it: the toc.ncx found
    toc_json,   \* the artifact json/toc.json: [exists, entries]
    ret,        \* outcome of the latest generate_toc call: [status, toc]
    prev_ret,   \* outcome of the generate_toc call before it on the same document
    unchanged,  \* the extracted tree was not replaced since the latest generate_toc call
    last,       \* the operation that ran last and how it ended: [op, status]
    call,       \* a single call of a leaf function: [fn, title, path]
    result,     \* what that call returned: [done, value]
    audio_dir,  \* the directory audio/: [exists, files], a file being [name, ms]
    outside,    \* the audio files elsewhere on the disk, each [path, ms]
    book_dir,   \* the name of the book directory, the stem of the book
    opf,        \* the first .opf file under extracted/: [kind, title, creators]
    cover,      \* a cover image is found under extracted/
    index,      \* _build_audiobook's by_number and by_title: [by_number, by_title]
    resolved,   \* _build_audiobook's used_entries and audio_paths: [entries, paths]
    warnings,   \* the entries _build_audiobook logged "No audio match" for
    prev_warnings, \* the entries the _build_audiobook call before it logged so
    concat_txt, \* the artifact txt/concat.txt: [exists, paths]
    chapters_txt, \* the artifact txt/chapters.txt: [exists, chapters]
    mux,        \* the ffmpeg runs of the latest _build_audiobook call
    narrated    \* the outputs the latest convert_from_toc call ran the generator for

\* The state the audiobook assembly adds to the pipeline's.
book_vars ==
    <<audio_dir, outside, book_dir, opf, cover, index, resolved, warnings,
      prev_warnings, concat_txt, chapters_txt, mux, narrated>>

vars ==
    <<ncx, toc_json, ret, prev_ret, unchanged, last, call, result,
      audio_dir, outside, book_dir, opf, cover, index, resolved, warnings,
      prev_warnings, concat_txt, chapters_txt, mux, narrated>>

---------------------------------------------------------------------------
(* Bounds of the model. *)

MaxNav == 3         \* navPoints per navigation document
MaxTitleLen == 4    \* characters of a title handed to _parse_chapter_number
MaxTokens == 2      \* tokens of a title or path handed to _should_skip_entry
MaxFiles == 2       \* files of an audio directory handed to _index_audio_files
MaxEntries == 3     \* entries of a manifest handed to _build_audiobook
MaxAudio == 3       \* files of the audio directory _build_audiobook runs on
MaxRunEntries == 2  \* entries of the manifest of a book that is assembled again

---------------------------------------------------------------------------
(* Python values. *)

None == <<>>
Some(v) == <<v>>
Val(o) == o[1]

DigitChars == <<"0", "1", "2", "3", "4", "5", "6", "7", "8", "9">>
UpperChars ==
    <<"A", "B", "C", "D", "E", "F", "G", "H", "I", "J", "K", "L", "M",
      "N", "O", "P", "Q", "R", "S", "T", "U", "V", "W", "X", "Y", "Z">>
LowerChars ==
    <<"a", "b", "c", "d", "e", "f", "g", "h", "i", "j", "k", "l", "m",
      "n", "o", "p", "q", "r", "s", "t", "u", "v", "w", "x", "y", "z">>
Whitespace == {" ", "\t", "\n", "\r"}

IsDigit(c) == \E i \in 1..10 : DigitChars[i] = c
DigitValue(c) == (CHOOSE i \in 1..10 : DigitChars[i] = c) - 1

\* str.lower()
LowerChar(c) ==
    IF \E i \in 1..26 : UpperChars[i] = c
    THEN LowerChars[CHOOSE i \in 1..26 : UpperChars[i] = c]
    ELSE c
Lower(s) == [i \in 1..Len(s) |-> LowerChar(s[i])]

\* str.lstrip(chars): drop the leading characters that belong to the set chars
RECURSIVE LStripChars(_, _)
LStripChars(s, chars) ==
    IF s # <<>> /\ Head(s) \in chars THEN LStripChars(Tail(s), chars) ELSE s

RECURSIVE RStripChars(_, _)
RStripChars(s, chars) ==
    IF s # <<>> /\ s[Len(s)] \in chars
    THEN RStripChars(SubSeq(s, 1, Len(s) - 1), chars)
    ELSE s

\* str.strip()
Strip(s) == RStripChars(LStripChars(s, Whitespace), Whitespace)

\* sub in s
Contains(s, sub) ==
    \E i \in 1..(Len(s) - Len(sub) + 1) : SubSeq(s, i, i + Len(sub) - 1) = sub

\* s.endswith(suffix)
EndsWith(s, suffix) ==
    /\ Len(s) >= Len(suffix)
    /\ SubSeq(s, Len(s) - Len(suffix) + 1, Len(s)) = suffix

\* int(digits)
RECURSIVE IntOfDigits(_)
IntOfDigits(ds) ==
    IF ds = <<>> THEN 0
    ELSE 10 * IntOfDigits(SubSeq(ds, 1, Len(ds) - 1)) + DigitValue(ds[Len(ds)])

\* f"{n}" for an int n >= 0
RECURSIVE StrOfInt(_)
StrOfInt(n) ==
    IF n < 10 THEN <<DigitChars[n + 1]>>
    ELSE StrOfInt(n \div 10) \o <<DigitChars[(n % 10) + 1]>>

\* The characters of a str, as str.lstrip(chars) reads its argument.
CharsOf(s) == {s[i] : i \in DOMAIN s}

\* bool(x) of an int | None
Truthy(o) == o # None /\ Val(o) # 0

---------------------------------------------------------------------------
(* reformat/extract.py: the classifier and the parser. *)

BACK_MATTER_KEYWORDS ==
    << <<"a", "b", "o", "u", "t", " ", "t", "h", "e", " ", "a", "u", "t", "h", "o", "r">>,
       <<"a", "c", "k", "n", "o", "w", "l", "e", "d", "g", "m", "e", "n", "t", "s">>,
       <<"a", "c", "k", "n", "o", "w", "l", "e", "d", "g", "e", "m", "e", "n", "t", "s">>,
       <<"a", "f", "t", "e", "r", "w", "o", "r", "d">>,
       <<"a", "l", "s", "o", " ", "i", "n", " ", "s", "e", "r", "i", "e", "s">>,
       <<"a", "p", "p", "e", "n", "d", "i", "x">>,
       <<"b", "a", "c", "k", " ", "m", "a", "t", "t", "e", "r">>,
       <<"b", "i", "b", "l", "i", "o", "g", "r", "a", "p", "h", "y">>,
       <<"c", "o", "l", "o", "p", "h", "o", "n">>,
       <<"c", "o", "n", "t", "e", "n", "t", "s">>,
       <<"c", "o", "p", "y", "r", "i", "g", "h", "t">>,
       <<"e", "p", "i", "l", "o", "g", "u", "e">>,
       <<"g", "l", "o", "s", "s", "a", "r", "y">>,
       <<"i", "n", "d", "e", "x">>,
       <<"n", "o", "t", "e", "s">>,
       <<"o", "t", "h", "e", "r", " ", "b", "o", "o", "k", "s">>,
       <<"p", "e", "r", "m", "i", "s", "s", "i", "o", "n", "s">>,
       <<"p", "r", "a", "i", "s", "e">>,
       <<"r", "e", "f", "e", "r", "e", "n", "c", "e", "s">>,
       <<"r", "e", "s", "o", "u", "r", "c", "e", "s">>,
       <<"t", "h", "a", "n", "k", " ", "y", "o", "u">> >>

FONT_EXTENSIONS ==
    << <<".", "t", "t", "f">>,
       <<".", "o", "t", "f">>,
       <<".", "w", "o", "f", "f">>,
       <<".", "w", "o", "f", "f", "2">> >>

FontWord == <<"f", "o", "n", "t">>

\* A plausible slip: the "font" test looks at the title only.
should_skip_entry_title_only(title, chapter_path) ==
    LET title_lower == Lower(Strip(title))
        path_lower == IF chapter_path # None /\ Val(chapter_path) # <<>>
                      THEN Lower(Strip(Val(chapter_path)))
                      ELSE <<>>
    IN  IF Contains(title_lower, FontWord)
        THEN TRUE
        ELSE IF \E i \in DOMAIN FONT_EXTENSIONS : EndsWith(path_lower, FONT_EXTENSIONS[i])
        THEN TRUE
        ELSE \E k \in DOMAIN BACK_MATTER_KEYWORDS :
                Contains(title_lower, BACK_MATTER_KEYWORDS[k])

\* _should_skip_entry(title, chapter_path); chapter_path is a str | None
should_skip_entry(title, chapter_path) ==
    LET title_lower == Lower(Strip(title))
        path_lower == IF chapter_path # None /\ Val(chapter_path) # <<>>
                      THEN Lower(Strip(Val(chapter_path)))
                      ELSE <<>>
    IN  IF Contains(title_lower, FontWord) \/ Contains(path_lower, FontWord)
        THEN TRUE
        ELSE IF \E i \in DOMAIN FONT_EXTENSIONS : EndsWith(path_lower, FONT_EXTENSIONS[i])
        THEN TRUE
        ELSE \E k \in DOMAIN BACK_MATTER_KEYWORDS :
                Contains(title_lower, BACK_MATTER_KEYWORDS[k])

\* The length of the longest run of digits s starts with: the greedy (\d+).
RECURSIVE DigitRun(_)
DigitRun(s) ==
    IF s # <<>> /\ IsDigit(Head(s)) THEN 1 + DigitRun(Tail(s)) ELSE 0

\* A plausible slip: the pattern without its ^ anchor, (\d+)\. found anywhere.
parse_chapter_number_unanchored(title) ==
    IF title = None \/ Val(title) = <<>>
    THEN None
    ELSE LET t == Val(title)
             Hits == {i \in 1..Len(t) :
                        LET n == DigitRun(SubSeq(t, i, Len(t)))
                        IN  n >= 1 /\ i + n <= Len(t) /\ t[i + n] = "."}
         IN  IF Hits = {} THEN None
             ELSE LET i == CHOOSE h \in Hits : \A g \in Hits : h <= g
                      n == DigitRun(SubSeq(t, i, Len(t)))
                  IN  Some(IntOfDigits(SubSeq(t, i, i + n - 1)))

\* _parse_chapter_number(title); title is a str | None: re.search(r"^(\d+)\.", title)
parse_chapter_number(title) ==
    IF title = None \/ Val(title) = <<>>
    THEN None
    ELSE LET t == Val(title)
             n == DigitRun(t)
         IN  IF n >= 1 /\ n < Len(t) /\ t[n + 1] = "."
             THEN Some(IntOfDigits(SubSeq(t, 1, n)))
             ELSE None

---------------------------------------------------------------------------
(* Navigation documents.  A navPoint is [text, content, src]: text is the    *)
(* text of its navLabel/text node (None when the node or its text is        *)
(* missing), content says whether it has a content node, src is that node's *)
(* src attribute (None when the attribute is missing).  A document is the   *)
(* sequence of its navPoints in document order, nested ones included, as    *)
(* nav_map.findall(".//navPoint") lists them.                               *)

NavPoint(text, src) == [text |-> text, content |-> TRUE, src |-> src]

NavPool ==
    { NavPoint(Some(<<"1", ".", " ", "P", "r", "o", "l", "o", "g", "u", "e">>),
               Some(<<"c", "1", ".", "h", "t", "m", "l">>)),
      NavPoint(Some(<<"2", ".", " ", "f", "o", "n", "t", "-", "e", "m", "b", "e", "d", ".", "o", "t", "f">>),
               Some(<<"f", ".", "o", "t", "f">>)),
      NavPoint(Some(<<"A", "c", "k", "n", "o", "w", "l", "e", "d", "g", "m", "e", "n", "t", "s">>),
               Some(<<"a", "c", "k", ".", "h", "t", "m", "l">>)),
      NavPoint(Some(<<"0", ".", " ", "I", "n", "t", "r", "o">>),
               Some(<<"c", "0", ".", "h", "t", "m", "l">>)),
      NavPoint(Some(<<" ", "1", ".", " ", "1", "s", "t", " ", "D", "a", "y", " ">>),
               Some(<<"c", "5", ".", "h", "t", "m", "l">>)),
      NavPoint(Some(<<"0", "1", ".", " ", "O", "n", "e">>),
               Some(<<"g", "o", "n", "e", ".", "h", "t", "m", "l">>)),
      NavPoint(Some(<<"1", "2", ".", " ", "E", "p", "i", "l", "o", "g", "u", "e">>),
               Some(<<"c", "7", ".", "h", "t", "m", "l">>)),
      NavPoint(Some(<<"2", ".", " ", "T", "w", "o">>), None) }

\* The chapter files present in an extracted tree.
ChapterFiles ==
    { <<"c", "1", ".", "h", "t", "m", "l">>,
      <<"c", "0", ".", "h", "t", "m", "l">>,
      <<"c", "5", ".", "h", "t", "m", "l">>,
      <<"c", "7", ".", "h", "t", "m", "l">> }

NavMap(points) == [kind |-> "navmap", points |-> points]
NoDir == [kind |-> "nodir", points |-> <<>>]          \* no extracted directory
NoNcx == [kind |-> "absent", points |-> <<>>]         \* no toc.ncx under it
Malformed == [kind |-> "malformed", points |-> <<>>]  \* toc.ncx is not well-formed XML
NoNavMap == [kind |-> "nonavmap", points |-> <<>>]    \* well-formed, no navMap element

NavDocs == UNION {{NavMap(ps) : ps \in [1..k -> NavPool]} : k \in 0..MaxNav}
NcxStates == NavDocs \cup {NoDir, NoNcx, Malformed, NoNavMap}

\* What the archive of a later unzip_epub_zip call extracts to.
Archives == {NoNcx, Malformed, NoNavMap, NavMap(<<>>)}

---------------------------------------------------------------------------
(* generate_toc *)

\* title = (label_node.text or "").strip() if label_node is not None else ""
NavTitle(nav_point) ==
    IF nav_point.text # None THEN Strip(Val(nav_point.text)) ELSE <<>>

\* chapter_path = content_node.get("src") if content_node is not None else ""
NavPath(nav_point) ==
    IF nav_point.content THEN nav_point.src ELSE Some(<<>>)

\* A plausible slip: the `if not chapter_number: continue` is missing.
NavEntryKeepUnnumbered(nav_point, order) ==
    LET stripped == NavTitle(nav_point)
        chapter_path == NavPath(nav_point)
        chapter_number == parse_chapter_number(Some(stripped))
        title == IF Truthy(chapter_number)
                 THEN LStripChars(stripped,
                        CharsOf(StrOfInt(Val(chapter_number)) \o <<".", " ">>))
                 ELSE stripped
    IN  IF should_skip_entry(title, chapter_path)
        THEN <<>>
        ELSE << [order |-> order,
                 chapter_number |-> IF Truthy(chapter_number) THEN chapter_number ELSE None,
                 chapter_title |-> title,
                 chapter_path |-> chapter_path] >>

\* The body of the loop over the navPoints: the entry the navPoint at position
\* order appends to toc, as a sequence of zero or one entry.
NavEntry(nav_point, order) ==
    LET stripped == NavTitle(nav_point)
        chapter_path == NavPath(nav_point)
        chapter_number == parse_chapter_number(Some(stripped))
        \* title.lstrip(f"{chapter_number}. "): the argument is a set of characters
        title == IF Truthy(chapter_number)
                 THEN LStripChars(stripped,
                        CharsOf(StrOfInt(Val(chapter_number)) \o <<".", " ">>))
                 ELSE stripped
    IN  IF ~Truthy(chapter_number)
        THEN <<>>
        ELSE IF should_skip_entry(title, chapter_path)
        THEN <<>>
        ELSE << [order |-> order,
                 chapter_number |-> IF Truthy(chapter_number) THEN chapter_number ELSE None,
                 chapter_title |-> title,
                 chapter_path |-> chapter_path] >>

\* A plausible slip: order counts the entries kept so far, not the navPoints.
RECURSIVE WalkNumberingSurvivors(_, _, _)
WalkNumberingSurvivors(points, order, toc) ==
    IF order > Len(points) THEN toc
    ELSE WalkNumberingSurvivors(points, order + 1,
                                toc \o NavEntry(points[order], Len(toc) + 1))

\* for order, nav_point in enumerate(navPoints, start=1): ... toc.append(...)
RECURSIVE WalkNavPoints(_, _, _)
WalkNavPoints(points, order, toc) ==
    IF order > Len(points) THEN toc
    ELSE WalkNavPoints(points, order + 1, toc \o NavEntry(points[order], order))

NoRet == [status |-> "none", toc |-> <<>>]

\* A plausible slip: the new entries are added to the manifest already persisted.
generate_toc_returns_extending(doc) ==
    IF doc.kind \in {"nodir", "absent"}
    THEN [status |-> "FileNotFoundError", toc |-> <<>>]
    ELSE IF doc.kind = "malformed"
    THEN [status |-> "ParseError", toc |-> <<>>]
    ELSE IF doc.kind = "nonavmap"
    THEN [status |-> "ok", toc |-> <<>>]
    ELSE [status |-> "ok",
          toc |-> WalkNavPoints(doc.points, 1,
                                IF toc_json.exists THEN toc_json.entries ELSE <<>>)]

\* What generate_toc raises or returns on the extracted tree doc.
generate_toc_returns(doc) ==
    IF doc.kind \in {"nodir", "absent"}
    THEN [status |-> "FileNotFoundError", toc |-> <<>>]
    ELSE IF doc.kind = "malformed"
    THEN [status |-> "ParseError", toc |-> <<>>]
    ELSE IF doc.kind = "nonavmap"
    THEN [status |-> "ok", toc |-> <<>>]
    ELSE [status |-> "ok", toc |-> WalkNavPoints(doc.points, 1, <<>>)]

\* A plausible slip: toc.json is opened for writing before the document is read.
generate_toc_persists_early(doc, old) ==
    IF doc.kind = "navmap"
    THEN [exists |-> TRUE, entries |-> generate_toc_returns(doc).toc]
    ELSE [exists |-> TRUE, entries |-> <<>>]

\* What json/toc.json holds after generate_toc ran on doc, old being what it held.
generate_toc_persists(doc, old) ==
    IF doc.kind = "navmap"
    THEN [exists |-> TRUE, entries |-> generate_toc_returns(doc).toc]
    ELSE old

generate_toc ==
    /\ ret' = generate_toc_returns(ncx)
    /\ toc_json' = generate_toc_persists(ncx, toc_json)
    /\ prev_ret' = IF unchanged THEN ret ELSE NoRet
    /\ unchanged' = TRUE
    /\ last' = [op |-> "generate_toc", status |-> ret'.status]
    /\ UNCHANGED <<ncx, call, result, book_vars>>

---------------------------------------------------------------------------
(* convert_to_markdown (reformat/convert_markdown.py) *)

MarkdownRoot == <<"m", "a", "r", "k", "d", "o", "w", "n", "/">>
AudioRoot == <<"a", "u", "d", "i", "o", "/">>

\* The position of the last "." of s, 0 when there is none.
RECURSIVE LastDot(_)
LastDot(s) ==
    IF s = <<>> THEN 0
    ELSE IF s[Len(s)] = "." THEN Len(s)
    ELSE LastDot(SubSeq(s, 1, Len(s) - 1))

\* (markdown_root / chapter_rel).with_suffix(".md").as_posix()
MarkdownPath(chapter_path) ==
    LET dot == LastDot(chapter_path)
        stem == IF dot > 1 /\ dot < Len(chapter_path)
                THEN SubSeq(chapter_path, 1, dot - 1)
                ELSE chapter_path
    IN  MarkdownRoot \o stem \o <<".", "m", "d">>

\* (audio_root / f"{chapter_label}. {title_for_audio}.m4a").as_posix()
AudioPath(entry) ==
    LET chapter_title == IF entry.chapter_title # <<>>
                         THEN entry.chapter_title
                         ELSE <<"C", "h", "a", "p", "t", "e", "r", " ">>
                                  \o StrOfInt(entry.order)
        chapter_label == IF Truthy(entry.chapter_number)
                         THEN Val(entry.chapter_number)
                         ELSE entry.order
    IN  AudioRoot \o StrOfInt(chapter_label) \o <<".", " ">>
            \o Strip(chapter_title) \o <<".", "m", "4", "a">>

\* Path(entry.get("chapter_path", "")) raises for a null chapter_path; an empty
\* one resolves to the extracted directory itself, which read_text cannot read.
EntryRaises(entry) ==
    IF entry.chapter_path = None THEN "TypeError"
    ELSE IF Val(entry.chapter_path) = <<>> THEN "IsADirectoryError"
    ELSE "ok"

\* The loop body of convert_to_markdown: the entry as the loop leaves it.
Annotate(entry) ==
    IF Val(entry.chapter_path) \notin ChapterFiles
    THEN entry
    ELSE [f \in DOMAIN entry \cup {"markdown", "audio"} |->
            IF f = "markdown" THEN MarkdownPath(Val(entry.chapter_path))
            ELSE IF f = "audio" THEN AudioPath(entry)
            ELSE entry[f]]

convert_to_markdown ==
    /\ IF ~toc_json.exists \/ ncx.kind = "nodir"
       THEN /\ last' = [op |-> "convert_to_markdown", status |-> "FileNotFoundError"]
            /\ UNCHANGED toc_json
       ELSE LET toc_entries == toc_json.entries
                raising == {i \in DOMAIN toc_entries : EntryRaises(toc_entries[i]) # "ok"}
            IN  IF raising # {}
                THEN \* the exception leaves the function before toc.json is rewritten
                     /\ last' = [op |-> "convert_to_markdown",
                                 status |-> EntryRaises(toc_entries[
                                     CHOOSE i \in raising : \A j \in raising : i <= j])]
                     /\ UNCHANGED toc_json
                ELSE LET annotated == [i \in DOMAIN toc_entries |-> Annotate(toc_entries[i])]
                         toc_updated == \E i \in DOMAIN toc_entries :
                                            Val(toc_entries[i].chapter_path) \in ChapterFiles
                     IN  /\ last' = [op |-> "convert_to_markdown", status |-> "ok"]
                         /\ toc_json' = IF toc_updated
                                        THEN [exists |-> TRUE, entries |-> annotated]
                                        ELSE toc_json
    /\ UNCHANGED <<ncx, ret, prev_ret, unchanged, call, result, book_vars>>

---------------------------------------------------------------------------
(* copy_chapters_from_toc (reformat/convert_html.py) *)

HtmlRoot == <<"h", "t", "m", "l", "/">>

\* A plausible slip: the html field is set before the test for a missing
\* chapter file.
AnnotateHtmlBeforeTest(entry) ==
    [f \in DOMAIN entry \cup {"html"} |->
        IF f = "html" THEN HtmlRoot \o Val(entry.chapter_path) ELSE entry[f]]

\* The loop body of copy_chapters_from_toc: the entry as the loop leaves it.
AnnotateHtml(entry) ==
    IF Val(entry.chapter_path) \notin ChapterFiles
    THEN entry
    ELSE [f \in DOMAIN entry \cup {"html"} |->
            IF f = "html" THEN HtmlRoot \o Val(entry.chapter_path) ELSE entry[f]]

copy_chapters_from_toc ==
    /\ IF ~toc_json.exists \/ ncx.kind = "nodir"
       THEN /\ last' = [op |-> "copy_chapters_from_toc", status |-> "FileNotFoundError"]
            /\ UNCHANGED toc_json
       ELSE LET toc_entries == toc_json.entries
                raising == {i \in DOMAIN toc_entries : EntryRaises(toc_entries[i]) # "ok"}
            IN  IF raising # {}
                THEN \* the exception leaves the function before toc.json is rewritten
                     /\ last' = [op |-> "copy_chapters_from_toc",
                                 status |-> EntryRaises(toc_entries[
                                     CHOOSE i \in raising : \A j \in raising : i <= j])]
                     /\ UNCHANGED toc_json
                ELSE \* toc.json is rewritten whether or not an entry changed
                     /\ last' = [op |-> "copy_chapters_from_toc", status |-> "ok"]
                     /\ toc_json' = [exists |-> TRUE,
                                     entries |-> [i \in DOMAIN toc_entries |->
                                                    AnnotateHtml(toc_entries[i])]]
    /\ UNCHANGED <<ncx, ret, prev_ret, unchanged, call, result, book_vars>>

---------------------------------------------------------------------------
(* unzip_epub_zip (reformat/reformat.py), with mkdir left at its default.   *)

\* With overwrite the extracted tree is removed and the archive extracted in
\* its place.  Without it the call returns as soon as the directory exists,
\* and the mkdir before that test has created it when it was missing.  The
\* call leaves word of whether it reached extractall.
unzip_epub_zip ==
    /\ \E overwrite \in BOOLEAN :
          IF overwrite
          THEN /\ \E archive \in Archives : ncx' = archive
               /\ last' = [op |-> "unzip_epub_zip", status |-> "ok", extracted |-> TRUE]
          ELSE /\ ncx' = IF ncx.kind = "nodir" THEN NoNcx ELSE ncx
               /\ last' = [op |-> "unzip_epub_zip", status |-> "ok", extracted |-> FALSE]
    /\ unchanged' = (unchanged /\ ncx' = ncx)
    /\ UNCHANGED <<toc_json, ret, prev_ret, call, result, book_vars>>

---------------------------------------------------------------------------
(* reformat/create_audiobook.py: the leaf functions.                        *)
(*                                                                          *)
(* A character outside ASCII, and the backquote, is written by its code     *)
(* point: "U+00E2", "U+0060".                                               *)

\* The printable ASCII characters, from code point 32 to 126.
Ascii ==
    <<" ", "!", "\"", "#", "$", "%", "&", "'", "(", ")", "*", "+", ",", "-", ".", "/",
      "0", "1", "2", "3", "4", "5", "6", "7", "8", "9", ":", ";", "<", "=", ">", "?",
      "@", "A", "B", "C", "D", "E", "F", "G", "H", "I", "J", "K", "L", "M", "N", "O",
      "P", "Q", "R", "S", "T", "U", "V", "W", "X", "Y", "Z", "[", "\\", "]", "^", "_",
      "U+0060", "a", "b", "c", "d", "e", "f", "g", "h", "i", "j", "k", "l", "m", "n", "o",
      "p", "q", "r", "s", "t", "u", "v", "w", "x", "y", "z", "{", "|", "}", "~">>

\* ord(c) for the characters of Ascii
AsciiCode ==
    [c \in {Ascii[i] : i \in DOMAIN Ascii} |->
        31 + (CHOOSE i \in DOMAIN Ascii : Ascii[i] = c)]

\* ord(c)
CodePoint(c) ==
    IF c \in DOMAIN AsciiCode
    THEN AsciiCode[c]
    ELSE CASE c = "\t" -> 9
           [] c = "\n" -> 10
           [] c = "\r" -> 13
           [] c = "U+00E2" -> 226
           [] c = "U+2013" -> 8211
           [] c = "U+201C" -> 8220
           [] c = "U+20AC" -> 8364

\* a < b for two str: the order sorted() puts the paths of one directory in
RECURSIVE StrLess(_, _)
StrLess(a, b) ==
    IF b = <<>> THEN FALSE
    ELSE IF a = <<>> THEN TRUE
    ELSE IF Head(a) = Head(b) THEN StrLess(Tail(a), Tail(b))
    ELSE CodePoint(Head(a)) < CodePoint(Head(b))

\* sorted(names) for a set of distinct names
RECURSIVE Sorted(_)
Sorted(names) ==
    IF names = {} THEN <<>>
    ELSE LET first == CHOOSE n \in names : \A m \in names \ {n} : StrLess(n, m)
         IN  <<first>> \o Sorted(names \ {first})

\* [a-z0-9]
LowerAlnum == {DigitChars[i] : i \in 1..10} \cup {LowerChars[i] : i \in 1..26}
IsLowerAlnum(c) == c \in LowerAlnum

\* The length of the longest prefix of s made of characters outside chars.
RECURSIVE RunOutside(_, _)
RunOutside(s, chars) ==
    IF s # <<>> /\ Head(s) \notin chars THEN 1 + RunOutside(Tail(s), chars) ELSE 0

\* str.split(): the maximal runs of non-whitespace characters
RECURSIVE Split(_)
Split(s) ==
    LET t == LStripChars(s, Whitespace)
        n == RunOutside(t, Whitespace)
    IN  IF t = <<>> THEN <<>>
        ELSE <<SubSeq(t, 1, n)>> \o Split(SubSeq(t, n + 1, Len(t)))

\* sep.join(words)
RECURSIVE Join(_, _)
Join(sep, words) ==
    IF words = <<>> THEN <<>>
    ELSE IF Len(words) = 1 THEN words[1]
    ELSE words[1] \o sep \o Join(sep, Tail(words))

\* re.sub(r"[^a-z0-9]+", " ", s): each maximal run of other characters
\* becomes one space
RECURSIVE SubNonAlnum(_)
SubNonAlnum(s) ==
    IF s = <<>> THEN <<>>
    ELSE IF IsLowerAlnum(Head(s)) THEN <<Head(s)>> \o SubNonAlnum(Tail(s))
    ELSE <<" ">> \o SubNonAlnum(SubSeq(s, RunOutside(s, LowerAlnum) + 1, Len(s)))

\* A plausible slip: the pattern without its +, and no split()/join after it.
normalize_title_per_character(value) ==
    LET lowered == Lower(Strip(value))
    IN  [i \in 1..Len(lowered) |->
            IF IsLowerAlnum(lowered[i]) THEN lowered[i] ELSE " "]

\* _normalize_title(value)
normalize_title(value) ==
    LET lowered == Lower(Strip(value))
        cleaned == SubNonAlnum(lowered)
    IN  Join(<<" ">>, Split(cleaned))

\* The characters of the class [.\-...:_)] of the stem pattern, as the source
\* file spells it: U+00E2, U+20AC and U+201C stand where an en dash (U+2013)
\* was meant.
StemPunctuation == {".", "-", "U+00E2", "U+20AC", "U+201C", ":", "_", ")"}

\* A plausible slip: the punctuation after the numeral is optional, [...]?.
StemMatchOptionalPunctuation(stem) ==
    LET s1 == LStripChars(stem, Whitespace)
        n == DigitRun(s1)
        s2 == LStripChars(SubSeq(s1, n + 1, Len(s1)), Whitespace)
        s3 == IF s2 # <<>> /\ Head(s2) \in StemPunctuation
              THEN LStripChars(Tail(s2), Whitespace)
              ELSE s2
        line == RunOutside(s3, {"\n"})
    IN  IF n >= 1 /\ (line = Len(s3) \/ line = Len(s3) - 1)
        THEN Some([number |-> IntOfDigits(SubSeq(s1, 1, n)),
                   title |-> SubSeq(s3, 1, line)])
        ELSE None

\* re.match(r"^\s*(\d+)\s*[.\-...:_)]\s*(.*)$", stem): None, or the two groups.
\* The . of (.*) matches no newline, and $ matches before a closing newline.
StemMatch(stem) ==
    LET s1 == LStripChars(stem, Whitespace)
        n == DigitRun(s1)
        s2 == LStripChars(SubSeq(s1, n + 1, Len(s1)), Whitespace)
        s3 == LStripChars(Tail(s2), Whitespace)
        line == RunOutside(s3, {"\n"})
    IN  IF n >= 1 /\ s2 # <<>> /\ Head(s2) \in StemPunctuation
           /\ (line = Len(s3) \/ line = Len(s3) - 1)
        THEN Some([number |-> IntOfDigits(SubSeq(s1, 1, n)),
                   title |-> SubSeq(s3, 1, line)])
        ELSE None

\* path.suffix
Suffix(name) ==
    LET dot == LastDot(name)
    IN  IF dot > 1 /\ dot < Len(name) THEN SubSeq(name, dot, Len(name)) ELSE <<>>

\* path.stem
Stem(name) ==
    LET dot == LastDot(name)
    IN  IF dot > 1 /\ dot < Len(name) THEN SubSeq(name, 1, dot - 1) ELSE name

AudioSuffixes ==
    { <<".", "m", "4", "a">>, <<".", "m", "4", "b">>,
      <<".", "m", "p", "3">>, <<".", "a", "a", "c">> }

\* dict.setdefault(key, value)
SetDefault(dict, key, value) ==
    IF key \in DOMAIN dict THEN dict ELSE dict @@ (key :> value)

\* An empty dict.
EmptyDict == <<>>

\* A plausible slip: plain assignment, by_number[number] = path, so the last
\* file registering a key wins.
RECURSIVE IndexFilesLastWins(_, _)
IndexFilesLastWins(paths, idx) ==
    IF paths = <<>> THEN idx
    ELSE LET path == Head(paths)
             stem == Stem(path)
             match == StemMatch(stem)
             title_part == IF match # None THEN Strip(Val(match).title) ELSE stem
             by_number == IF match # None
                          THEN (Val(match).number :> path) @@ idx.by_number
                          ELSE idx.by_number
             by_title == IF title_part # <<>>
                         THEN (normalize_title(title_part) :> path) @@ idx.by_title
                         ELSE idx.by_title
         IN  IF Lower(Suffix(path)) \notin AudioSuffixes
             THEN IndexFilesLastWins(Tail(paths), idx)
             ELSE IndexFilesLastWins(Tail(paths),
                                     [by_number |-> by_number, by_title |-> by_title])

\* The loop of _index_audio_files over the sorted paths, idx being the two
\* dicts so far.  The entries of audio/ are regular files.
RECURSIVE IndexFiles(_, _)
IndexFiles(paths, idx) ==
    IF paths = <<>> THEN idx
    ELSE LET path == Head(paths)
             stem == Stem(path)
             match == StemMatch(stem)
             title_part == IF match # None THEN Strip(Val(match).title) ELSE stem
             by_number == IF match # None
                          THEN SetDefault(idx.by_number, Val(match).number, path)
                          ELSE idx.by_number
             by_title == IF title_part # <<>>
                         THEN SetDefault(idx.by_title, normalize_title(title_part), path)
                         ELSE idx.by_title
         IN  IF Lower(Suffix(path)) \notin AudioSuffixes
             THEN IndexFiles(Tail(paths), idx)
             ELSE IndexFiles(Tail(paths),
                             [by_number |-> by_number, by_title |-> by_title])

NoIndex == [by_number |-> EmptyDict, by_title |-> EmptyDict]

\* _index_audio_files(audio_root), dir being the directory: [exists, names]
index_audio_files(dir) ==
    IF ~dir.exists THEN NoIndex
    ELSE IndexFiles(Sorted(dir.names), NoIndex)

\* str.replace(old, new) for a one-character old
Replace(s, old, new) ==
    LET Sub[i \in 0..Len(s)] ==
            IF i = 0 THEN <<>>
            ELSE Sub[i - 1] \o (IF s[i] = old THEN new ELSE <<s[i]>>)
    IN  Sub[Len(s)]

\* A plausible slip: the backslash is replaced last, doubling the escapes.
escape_ffmetadata_backslash_last(value) ==
    Replace(Replace(Replace(Replace(Replace(value,
        "\n", <<" ">>),
        "=", <<"\\", "=">>),
        ";", <<"\\", ";">>),
        "#", <<"\\", "#">>),
        "\\", <<"\\", "\\">>)

\* _escape_ffmetadata(value)
escape_ffmetadata(value) ==
    Replace(Replace(Replace(Replace(Replace(value,
        "\\", <<"\\", "\\">>),
        "\n", <<" ">>),
        "=", <<"\\", "=">>),
        ";", <<"\\", ";">>),
        "#", <<"\\", "#">>)

\* [a-zA-Z0-9]
Alnum == LowerAlnum \cup {UpperChars[i] : i \in 1..26}

\* str.upper() of one character
UpperChar(c) ==
    IF \E i \in 1..26 : LowerChars[i] = c
    THEN UpperChars[CHOOSE i \in 1..26 : LowerChars[i] = c]
    ELSE c

\* A cased character: a letter.
IsCased(c) == LowerChar(c) # c \/ UpperChar(c) # c

\* str.title(): a letter is upper case after a character that is no letter
\* and lower case after a letter
Title(s) ==
    [i \in 1..Len(s) |->
        IF i > 1 /\ IsCased(s[i - 1]) THEN LowerChar(s[i]) ELSE UpperChar(s[i])]

\* The length of the longest prefix of s made of characters of chars.
RECURSIVE RunInside(_, _)
RunInside(s, chars) ==
    IF s # <<>> /\ Head(s) \in chars THEN 1 + RunInside(Tail(s), chars) ELSE 0

\* re.split(r"[^a-zA-Z0-9]+", s) without its empty parts: the maximal runs of
\* letters and digits
RECURSIVE AlnumParts(_)
AlnumParts(s) ==
    LET t == SubSeq(s, RunOutside(s, Alnum) + 1, Len(s))
        n == RunInside(t, Alnum)
    IN  IF t = <<>> THEN <<>>
        ELSE <<SubSeq(t, 1, n)>> \o AlnumParts(SubSeq(t, n + 1, Len(t)))

\* part.isdigit(), for a part made of ASCII letters and digits
IsDigits(part) == part # <<>> /\ \A i \in DOMAIN part : IsDigit(part[i])

\* _humanize_stem(stem)
humanize_stem(stem) ==
    LET parts == AlnumParts(Strip(stem))
        words == [i \in DOMAIN parts |->
                    IF IsDigits(parts[i])
                    THEN StrOfInt(IntOfDigits(parts[i]))
                    ELSE parts[i]]
    IN  Title(Join(<<" ">>, words))

\* The package document: none under extracted/, one that is not well-formed
\* XML, or one that parses; title is the text of its first dc:title, if it
\* has both, creators the texts of its dc:creator elements.
NoOpf == [kind |-> "absent", title |-> None, creators |-> <<>>]
BadOpf == [kind |-> "malformed", title |-> None, creators |-> <<>>]
Opf(title, creators) == [kind |-> "parsed", title |-> title, creators |-> creators]

\* The creators whose text is not blank, stripped.
RECURSIVE Creators(_)
Creators(texts) ==
    IF texts = <<>> THEN <<>>
    ELSE IF Strip(Head(texts)) # <<>>
    THEN <<Strip(Head(texts))>> \o Creators(Tail(texts))
    ELSE Creators(Tail(texts))

\* A plausible slip: the title of the OPF is taken whenever the file parses.
BookMetadataTitleFromOpfAlways(stem, package) ==
    IF package.kind = "parsed"
    THEN [title |-> IF package.title # None THEN Strip(Val(package.title)) ELSE <<>>,
          author |-> IF Creators(package.creators) # <<>>
                     THEN Some(Join(<<" ", "&", " ">>, Creators(package.creators)))
                     ELSE None]
    ELSE [title |-> humanize_stem(stem), author |-> None]

\* The title and the author _build_audiobook settles on: [title, author].
BookMetadata(stem, package) ==
    LET opf_title == IF package.title # None /\ Val(package.title) # <<>>
                     THEN Strip(Val(package.title))
                     ELSE <<>>
        creators == Creators(package.creators)
    IN  IF package.kind = "parsed"
        THEN [title |-> IF opf_title # <<>> THEN opf_title ELSE humanize_stem(stem),
              author |-> IF creators # <<>>
                         THEN Some(Join(<<" ", "&", " ">>, creators))
                         ELSE None]
        ELSE \* no file, or the ValueError is caught and logged
             [title |-> humanize_stem(stem), author |-> None]

M4b == <<".", "m", "4", "b">>

\* txt/chapters.txt as _build_ffmetadata writes it.
ChaptersFile(meta, chapters) ==
    [exists |-> TRUE,
     title |-> escape_ffmetadata(meta.title),
     artist |-> IF meta.author # None /\ Val(meta.author) # <<>>
                THEN Some(escape_ffmetadata(Val(meta.author)))
                ELSE None,
     chapters |-> chapters]

\* No file written yet.
NoFile == [exists |-> FALSE]

\* The state of the assembly before _build_audiobook is ever called on an
\* empty book directory.
BookIdle ==
    /\ audio_dir = [exists |-> FALSE, files |-> {}]
    /\ outside = {}
    /\ book_dir = <<>>
    /\ opf = NoOpf
    /\ cover = FALSE
    /\ index = NoIndex
    /\ resolved = [entries |-> <<>>, paths |-> <<>>]
    /\ warnings = <<>>
    /\ prev_warnings = <<>>
    /\ concat_txt = NoFile
    /\ chapters_txt = NoFile
    /\ mux = <<>>
    /\ narrated = <<>>

---------------------------------------------------------------------------
(* The pipeline on one book directory. *)

NoCall == [fn |-> "none", title |-> None, path |-> None]
NoResult == [done |-> FALSE, value |-> None]

Init ==
    /\ ncx \in NcxStates
    /\ toc_json = [exists |-> FALSE, entries |-> <<>>]
    /\ ret = NoRet
    /\ prev_ret = NoRet
    /\ unchanged = TRUE
    /\ last = [op |-> "init", status |-> "ok"]
    /\ call = NoCall
    /\ result = NoResult
    /\ BookIdle

Next ==
    \/ generate_toc
    \/ convert_to_markdown
    \/ unzip_epub_zip

Spec == Init /\ [][Next]_vars

---------------------------------------------------------------------------
(* The leaf functions called on their own, on arguments drawn from bounded  *)
(* sets.                                                                    *)

\* Every str over the given characters, up to n characters long.
StrsUpTo(chars, n) == UNION {[1..k -> chars] : k \in 0..n}

\* Every concatenation of at most n of the given tokens.
RECURSIVE Concats(_, _)
Concats(tokens, n) ==
    IF n = 0 THEN {<<>>}
    ELSE LET shorter == Concats(tokens, n - 1)
         IN  shorter \cup {s \o t : s \in shorter, t \in tokens}

ParseChars == {"0", "1", "7", ".", " ", "x"}

TitleTokens ==
    { <<"F">>, <<"o", "n", "t">>, <<"x", " ">>,
      <<"T", "h", "a", "n", "k", " ">>, <<"y", "o", "u">>,
      <<"N", "o", "t", "e", "s">> }

PathTokens ==
    { <<"a">>, <<".", "T", "T", "F">>, <<".", "w", "o", "f", "f">>, <<"2">>,
      <<" ">>, <<"F", "o", "n", "t", "s", "/">> }

ParseCalls ==
    {[fn |-> "parse_chapter_number", title |-> t, path |-> None] :
        t \in {None} \cup {Some(s) : s \in StrsUpTo(ParseChars, MaxTitleLen)}}

SkipCalls ==
    {[fn |-> "should_skip_entry", title |-> Some(t), path |-> p] :
        t \in Concats(TitleTokens, MaxTokens),
        p \in {None} \cup {Some(s) : s \in Concats(PathTokens, MaxTokens)}}

call_parse_chapter_number ==
    /\ call.fn = "parse_chapter_number"
    /\ ~result.done
    /\ result' = [done |-> TRUE, value |-> parse_chapter_number(call.title)]
    /\ UNCHANGED <<ncx, toc_json, ret, prev_ret, unchanged, last, call, book_vars>>

call_should_skip_entry ==
    /\ call.fn = "should_skip_entry"
    /\ ~result.done
    /\ result' = [done |-> TRUE,
                  value |-> should_skip_entry(Val(call.title), call.path)]
    /\ UNCHANGED <<ncx, toc_json, ret, prev_ret, unchanged, last, call, book_vars>>

NormalizeChars == {"A", "b", "3", " ", "-", "\t"}

EscapeChars == {"\\", "\n", "=", ";", "#", "a"}

\* The names of the files an audio directory is filled from: a numeral or
\* none, a separator or none, a title or none, and an audio suffix; and one
\* file that is not an audio file.
FileNames ==
    {number \o separator \o title \o <<".", "m", "4", "a">> :
        number \in {<<>>, <<"3">>, <<"0", "3">>},
        separator \in {<<>>, <<" ">>, <<" ", "-", " ">>, <<"U+20AC">>,
                       <<" ", "U+2013", " ">>},
        title \in {<<>>, <<"T", "h", "e", " ", "F", "a", "l", "l">>}}
    \cup { <<"3", ".", " ", "T", "h", "e", " ", "F", "a", "l", "l", ".", "t", "x", "t">> }

\* Every directory of at most n of the given names.
DirsUpTo(names, n) ==
    LET Grow[k \in 0..n] ==
            IF k = 0 THEN {{}}
            ELSE Grow[k - 1] \cup {d \cup {m} : d \in Grow[k - 1], m \in names}
    IN  Grow[n]

NormalizeCalls ==
    {[fn |-> "normalize_title", value |-> s] :
        s \in StrsUpTo(NormalizeChars, MaxTitleLen)}

EscapeCalls ==
    {[fn |-> "escape_ffmetadata", value |-> s] :
        s \in StrsUpTo(EscapeChars, MaxTitleLen)}

IndexCalls ==
    {[fn |-> "index_audio_files", dir |-> [exists |-> FALSE, names |-> {}]]}
    \cup {[fn |-> "index_audio_files", dir |-> [exists |-> TRUE, names |-> d]] :
            d \in DirsUpTo(FileNames, MaxFiles)}

call_normalize_title ==
    /\ call.fn = "normalize_title"
    /\ ~result.done
    /\ result' = [done |-> TRUE, value |-> normalize_title(call.value)]
    /\ UNCHANGED <<ncx, toc_json, ret, prev_ret, unchanged, last, call, book_vars>>

call_escape_ffmetadata ==
    /\ call.fn = "escape_ffmetadata"
    /\ ~result.done
    /\ result' = [done |-> TRUE, value |-> escape_ffmetadata(call.value)]
    /\ UNCHANGED <<ncx, toc_json, ret, prev_ret, unchanged, last, call, book_vars>>

call_index_audio_files ==
    /\ call.fn = "index_audio_files"
    /\ ~result.done
    /\ result' = [done |-> TRUE, value |-> index_audio_files(call.dir)]
    /\ UNCHANGED <<ncx, toc_json, ret, prev_ret, unchanged, last, call, book_vars>>

InitLeaf ==
    /\ ncx = NoDir
    /\ toc_json = [exists |-> FALSE, entries |-> <<>>]
    /\ ret = NoRet
    /\ prev_ret = NoRet
    /\ unchanged = TRUE
    /\ last = [op |-> "init", status |-> "ok"]
    /\ \/ call \in ParseCalls
       \/ call \in SkipCalls
       \/ call \in NormalizeCalls
       \/ call \in EscapeCalls
       \/ call \in IndexCalls
    /\ result = NoResult
    /\ BookIdle

NextLeaf ==
    \/ call_parse_chapter_number
    \/ call_should_skip_entry
    \/ call_normalize_title
    \/ call_escape_ffmetadata
    \/ call_index_audio_files

SpecLeaf == InitLeaf /\ [][NextLeaf]_vars

---------------------------------------------------------------------------
(* _build_audiobook (reformat/create_audiobook.py).  A path is the str of   *)
(* it, relative to the book directory; audio/ holds regular files, each     *)
(* [name, ms], ms being the duration ffprobe reports for it in              *)
(* milliseconds, None when ffprobe fails on it.                            *)

\* The audio files the assembly can meet, by their path from the book
\* directory: those of audio/ and those elsewhere; dir is [exists, files,
\* outside].
FilesOnDisk(dir) ==
    {[path |-> AudioRoot \o f.name, ms |-> f.ms] : f \in dir.files} \cup dir.outside

\* path.exists()
PathExists(path, dir) ==
    \E f \in FilesOnDisk(dir) : f.path = path

\* path.is_absolute()
IsAbsolute(path) == path # <<>> /\ Head(path) = "/"

\* The name of a path: what follows its last "/".
RECURSIVE BaseName(_)
BaseName(path) ==
    IF \E i \in DOMAIN path : path[i] = "/"
    THEN BaseName(Tail(path))
    ELSE path

\* A plausible slip: the entries are taken as toc.json lists them.
SortByOrderAsListed(entries) ==
    entries

\* sorted(entries, key=lambda item: item.get("order", 0)): a stable sort
RECURSIVE SortByOrder(_)
SortByOrder(entries) ==
    IF entries = <<>> THEN <<>>
    ELSE LET rest == SortByOrder(SubSeq(entries, 1, Len(entries) - 1))
             entry == entries[Len(entries)]
             before == Cardinality({i \in DOMAIN rest : rest[i].order <= entry.order})
         IN  SubSeq(rest, 1, before) \o <<entry>> \o SubSeq(rest, before + 1, Len(rest))

\* The first tier: the path stored on the entry, when it exists on disk,
\* taken as it is or below audio/.
StoredPath(entry, dir) ==
    IF "audio" \notin DOMAIN entry \/ entry.audio = <<>>
    THEN None
    ELSE LET audio_path == IF ~IsAbsolute(entry.audio) /\ ~PathExists(entry.audio, dir)
                           THEN AudioRoot \o entry.audio
                           ELSE entry.audio
         IN  IF PathExists(audio_path, dir) THEN Some(audio_path) ELSE None

\* The path the index holds under key, if any.
IndexedPath(dict, key) ==
    IF key \in DOMAIN dict THEN Some(AudioRoot \o dict[key]) ELSE None

\* The fourth tier: the normalized chapter_title in by_title.
TitleTier(entry, idx) ==
    IF Strip(entry.chapter_title) # <<>>
    THEN IndexedPath(idx.by_title, normalize_title(entry.chapter_title))
    ELSE None

\* A plausible slip: the lookup by title is left out.
ResolveEntryWithoutTitle(entry, dir, idx) ==
    LET stored == StoredPath(entry, dir)
        by_chapter == IF entry.chapter_number # None
                      THEN IndexedPath(idx.by_number, Val(entry.chapter_number))
                      ELSE None
        by_order == IndexedPath(idx.by_number, entry.order)
    IN  IF stored # None THEN stored
        ELSE IF by_chapter # None THEN by_chapter
        ELSE by_order

\* A plausible slip: the order is looked up before the chapter number.
ResolveEntryOrderFirst(entry, dir, idx) ==
    LET stored == StoredPath(entry, dir)
        by_order == IndexedPath(idx.by_number, entry.order)
        by_chapter == IF entry.chapter_number # None
                      THEN IndexedPath(idx.by_number, Val(entry.chapter_number))
                      ELSE None
    IN  IF stored # None THEN stored
        ELSE IF by_order # None THEN by_order
        ELSE IF by_chapter # None THEN by_chapter
        ELSE TitleTier(entry, idx)

\* The body of the loop over the entries up to the test of audio_path: the
\* path the entry resolves to, None when no tier hits.  chapter_number is an
\* int or None, order an int, chapter_title a str.
ResolveEntry(entry, dir, idx) ==
    LET stored == StoredPath(entry, dir)
        by_chapter == IF entry.chapter_number # None
                      THEN IndexedPath(idx.by_number, Val(entry.chapter_number))
                      ELSE None
        by_order == IndexedPath(idx.by_number, entry.order)
    IN  IF stored # None THEN stored
        ELSE IF by_chapter # None THEN by_chapter
        ELSE IF by_order # None THEN by_order
        ELSE TitleTier(entry, idx)

NoneResolved == [entries |-> <<>>, paths |-> <<>>, warnings |-> <<>>]

\* A plausible change: a file already taken by an earlier entry is not
\* given to a later one, which is reported unmatched instead.
RECURSIVE ReconcileOneToOne(_, _, _, _)
ReconcileOneToOne(entries, dir, idx, acc) ==
    IF entries = <<>> THEN acc
    ELSE LET entry == Head(entries)
             audio_path == ResolveEntry(entry, dir, idx)
         IN  ReconcileOneToOne(Tail(entries), dir, idx,
                IF audio_path = None
                   \/ \E i \in DOMAIN acc.paths : acc.paths[i] = Val(audio_path)
                THEN [acc EXCEPT !.warnings = Append(@, entry)]
                ELSE [acc EXCEPT !.paths = Append(@, Val(audio_path)),
                                 !.entries = Append(@, entry)])

\* A plausible slip: the continue after the warning is missing, and the
\* unmatched entry goes on to used_entries.
RECURSIVE ReconcileWithoutContinue(_, _, _, _)
ReconcileWithoutContinue(entries, dir, idx, acc) ==
    IF entries = <<>> THEN acc
    ELSE LET entry == Head(entries)
             audio_path == ResolveEntry(entry, dir, idx)
         IN  ReconcileWithoutContinue(Tail(entries), dir, idx,
                IF audio_path = None
                THEN [acc EXCEPT !.warnings = Append(@, entry),
                                 !.entries = Append(@, entry)]
                ELSE [acc EXCEPT !.paths = Append(@, Val(audio_path)),
                                 !.entries = Append(@, entry)])

\* for entry in entries: ... audio_paths.append, used_entries.append; acc is
\* [entries, paths, warnings] so far.
RECURSIVE Reconcile(_, _, _, _)
Reconcile(entries, dir, idx, acc) ==
    IF entries = <<>> THEN acc
    ELSE LET entry == Head(entries)
             audio_path == ResolveEntry(entry, dir, idx)
         IN  Reconcile(Tail(entries), dir, idx,
                IF audio_path = None
                THEN [acc EXCEPT !.warnings = Append(@, entry)]
                ELSE [acc EXCEPT !.paths = Append(@, Val(audio_path)),
                                 !.entries = Append(@, entry)])

\* _ffprobe_duration_ms(path): an int, None when ffprobe exits with an error
FfprobeDurationMs(path, dir) ==
    (CHOOSE f \in FilesOnDisk(dir) : f.path = path).ms

\* The line of concat.txt for a path; the working directory is "/".
ConcatLine(path) ==
    <<"f", "i", "l", "e", " ", "'">>
        \o Replace(IF IsAbsolute(path) THEN path ELSE <<"/">> \o path,
                   "'", <<"'", "\\", "'", "'">>)
        \o <<"'">>

\* The title of a [CHAPTER] record before escaping.
ChapterTitle(entry, audio_path) ==
    LET raw_title == IF entry.chapter_title # <<>>
                     THEN entry.chapter_title
                     ELSE Stem(BaseName(audio_path))
    IN  IF Truthy(entry.chapter_number)
        THEN IF raw_title # <<>>
             THEN <<"C", "h", "a", "p", "t", "e", "r", " ">>
                      \o StrOfInt(Val(entry.chapter_number))
                      \o <<":", " ">> \o raw_title
             ELSE <<"C", "h", "a", "p", "t", "e", "r", " ">>
                      \o StrOfInt(Val(entry.chapter_number))
        ELSE raw_title

\* A plausible slip: END is the duration alone, current_ms is not added.
RECURSIVE ChapterRecordsEndIsDuration(_, _, _, _)
ChapterRecordsEndIsDuration(entries, audio_paths, dir, current_ms) ==
    IF entries = <<>> THEN <<>>
    ELSE LET duration_ms == Val(FfprobeDurationMs(Head(audio_paths), dir))
         IN  << [START |-> current_ms,
                 END |-> duration_ms,
                 title |-> escape_ffmetadata(ChapterTitle(Head(entries),
                                                          Head(audio_paths)))] >>
             \o ChapterRecordsEndIsDuration(Tail(entries), Tail(audio_paths), dir,
                                            current_ms + duration_ms)

\* The [CHAPTER] records _build_ffmetadata writes: for entry, audio_path in
\* zip(entries, audio_paths), from current_ms on.
RECURSIVE ChapterRecords(_, _, _, _)
ChapterRecords(entries, audio_paths, dir, current_ms) ==
    IF entries = <<>> THEN <<>>
    ELSE LET duration_ms == Val(FfprobeDurationMs(Head(audio_paths), dir))
         IN  << [START |-> current_ms,
                 END |-> current_ms + duration_ms,
                 title |-> escape_ffmetadata(ChapterTitle(Head(entries),
                                                          Head(audio_paths)))] >>
             \o ChapterRecords(Tail(entries), Tail(audio_paths), dir,
                               current_ms + duration_ms)

\* A plausible slip: the cover is looked for after the two files are written.
AssembleCoverLate(rec, dir, has_cover, meta, old) ==
    LET concat == [exists |-> TRUE,
                   lines |-> [i \in DOMAIN rec.paths |-> ConcatLine(rec.paths[i])]]
        failing == {i \in DOMAIN rec.paths : FfprobeDurationMs(rec.paths[i], dir) = None}
    IN  IF rec.paths = <<>>
        THEN [status |-> "FileNotFoundError", concat_txt |-> old.concat_txt,
              chapters_txt |-> old.chapters_txt, mux |-> <<>>]
        ELSE IF failing # {}
        THEN [status |-> "CalledProcessError", concat_txt |-> concat,
              chapters_txt |-> old.chapters_txt, mux |-> <<>>]
        ELSE IF ~has_cover
        THEN [status |-> "FileNotFoundError", concat_txt |-> concat,
              chapters_txt |-> ChaptersFile(meta, ChapterRecords(rec.entries, rec.paths,
                                                                 dir, 0)),
              mux |-> <<>>]
        ELSE [status |-> "ok", concat_txt |-> concat,
              chapters_txt |-> ChaptersFile(meta, ChapterRecords(rec.entries, rec.paths,
                                                                 dir, 0)),
              mux |-> << [inputs |-> Len(rec.paths), chapters |-> Len(rec.entries),
                          cover |-> TRUE, output |-> meta.title \o M4b] >>]

\* A plausible slip: each [CHAPTER] record is written as soon as its file is
\* probed, so a failing probe leaves the records before it in chapters.txt.
AssembleWritesAsProbed(rec, dir, has_cover, meta, old) ==
    LET concat == [exists |-> TRUE,
                   lines |-> [i \in DOMAIN rec.paths |-> ConcatLine(rec.paths[i])]]
        failing == {i \in DOMAIN rec.paths : FfprobeDurationMs(rec.paths[i], dir) = None}
        first == CHOOSE i \in failing : \A j \in failing : i <= j
    IN  IF rec.paths = <<>> \/ ~has_cover
        THEN [status |-> "FileNotFoundError", concat_txt |-> old.concat_txt,
              chapters_txt |-> old.chapters_txt, mux |-> <<>>]
        ELSE IF failing # {}
        THEN [status |-> "CalledProcessError", concat_txt |-> concat,
              chapters_txt |-> ChaptersFile(meta,
                                ChapterRecords(SubSeq(rec.entries, 1, first - 1),
                                               SubSeq(rec.paths, 1, first - 1),
                                               dir, 0)),
              mux |-> <<>>]
        ELSE [status |-> "ok", concat_txt |-> concat,
              chapters_txt |-> ChaptersFile(meta, ChapterRecords(rec.entries, rec.paths,
                                                                 dir, 0)),
              mux |-> << [inputs |-> Len(rec.paths), chapters |-> Len(rec.entries),
                          cover |-> TRUE, output |-> meta.title \o M4b] >>]

\* A plausible change: every file is probed before concat.txt is written, so
\* a probe failure leaves txt/ as it was.
AssembleProbesFirst(rec, dir, has_cover, meta, old) ==
    LET concat == [exists |-> TRUE,
                   lines |-> [i \in DOMAIN rec.paths |-> ConcatLine(rec.paths[i])]]
        failing == {i \in DOMAIN rec.paths : FfprobeDurationMs(rec.paths[i], dir) = None}
    IN  IF rec.paths = <<>> \/ ~has_cover
        THEN [status |-> "FileNotFoundError", concat_txt |-> old.concat_txt,
              chapters_txt |-> old.chapters_txt, mux |-> <<>>]
        ELSE IF failing # {}
        THEN [status |-> "CalledProcessError", concat_txt |-> old.concat_txt,
              chapters_txt |-> old.chapters_txt, mux |-> <<>>]
        ELSE [status |-> "ok", concat_txt |-> concat,
              chapters_txt |-> ChaptersFile(meta, ChapterRecords(rec.entries, rec.paths,
                                                                 dir, 0)),
              mux |-> << [inputs |-> Len(rec.paths), chapters |-> Len(rec.entries),
                          cover |-> TRUE, output |-> meta.title \o M4b] >>]

\* A plausible slip: the check for an empty list of audio files is left out.
AssembleWithoutAudioCheck(rec, dir, has_cover, meta, old) ==
    LET concat == [exists |-> TRUE,
                   lines |-> [i \in DOMAIN rec.paths |-> ConcatLine(rec.paths[i])]]
        failing == {i \in DOMAIN rec.paths : FfprobeDurationMs(rec.paths[i], dir) = None}
    IN  IF ~has_cover
        THEN [status |-> "FileNotFoundError", concat_txt |-> old.concat_txt,
              chapters_txt |-> old.chapters_txt, mux |-> <<>>]
        ELSE IF failing # {}
        THEN [status |-> "CalledProcessError", concat_txt |-> concat,
              chapters_txt |-> old.chapters_txt, mux |-> <<>>]
        ELSE [status |-> "ok", concat_txt |-> concat,
              chapters_txt |-> ChaptersFile(meta, ChapterRecords(rec.entries, rec.paths,
                                                                 dir, 0)),
              mux |-> << [inputs |-> Len(rec.paths), chapters |-> Len(rec.entries),
                          cover |-> TRUE, output |-> meta.title \o M4b] >>]

\* _build_audiobook after the loop over the entries: how the call ends, what
\* txt/concat.txt and txt/chapters.txt hold after it, old being what they
\* held before, and the ffmpeg runs it made.
Assemble(rec, dir, has_cover, meta, old) ==
    LET concat == [exists |-> TRUE,
                   lines |-> [i \in DOMAIN rec.paths |-> ConcatLine(rec.paths[i])]]
        failing == {i \in DOMAIN rec.paths : FfprobeDurationMs(rec.paths[i], dir) = None}
    IN  IF rec.paths = <<>>
        THEN [status |-> "FileNotFoundError", concat_txt |-> old.concat_txt,
              chapters_txt |-> old.chapters_txt, mux |-> <<>>]
        ELSE IF ~has_cover
        THEN [status |-> "FileNotFoundError", concat_txt |-> old.concat_txt,
              chapters_txt |-> old.chapters_txt, mux |-> <<>>]
        ELSE IF failing # {}
        THEN \* ffprobe fails inside _build_ffmetadata, after concat.txt is
             \* written and before chapters.txt is
             [status |-> "CalledProcessError", concat_txt |-> concat,
              chapters_txt |-> old.chapters_txt, mux |-> <<>>]
        ELSE [status |-> "ok", concat_txt |-> concat,
              chapters_txt |-> ChaptersFile(meta, ChapterRecords(rec.entries, rec.paths,
                                                                 dir, 0)),
              mux |-> << [inputs |-> Len(rec.paths), chapters |-> Len(rec.entries),
                          cover |-> TRUE, output |-> meta.title \o M4b] >>]

\* The disk as _build_audiobook finds it.
Disk ==
    [exists |-> audio_dir.exists, files |-> audio_dir.files, outside |-> outside]

build_audiobook ==
    /\ IF ~toc_json.exists
       THEN \* _load_toc raises before anything else is done
            /\ last' = [op |-> "_build_audiobook", status |-> "FileNotFoundError"]
            /\ index' = NoIndex
            /\ resolved' = [entries |-> <<>>, paths |-> <<>>]
            /\ warnings' = <<>>
            /\ mux' = <<>>
            /\ UNCHANGED <<concat_txt, chapters_txt>>
       ELSE \E idx \in {index_audio_files([exists |-> audio_dir.exists,
                                            names |-> {f.name : f \in audio_dir.files}])} :
            \E rec \in {Reconcile(SortByOrder(toc_json.entries), Disk, idx,
                                  NoneResolved)} :
            \E out \in {Assemble(rec, Disk, cover, BookMetadata(book_dir, opf),
                                 [concat_txt |-> concat_txt,
                                  chapters_txt |-> chapters_txt])} :
                /\ index' = idx
                /\ resolved' = [entries |-> rec.entries, paths |-> rec.paths]
                /\ warnings' = rec.warnings
                /\ concat_txt' = out.concat_txt
                /\ chapters_txt' = out.chapters_txt
                /\ mux' = out.mux
                /\ last' = [op |-> "_build_audiobook", status |-> out.status]
    /\ prev_warnings' = warnings
    /\ UNCHANGED <<ncx, toc_json, ret, prev_ret, unchanged, call, result,
                   audio_dir, outside, book_dir, opf, cover, narrated>>

---------------------------------------------------------------------------
(* convert_from_toc (audio/narrate_chapters.py), with start and end left at *)
(* their defaults; the working directory is the book directory.             *)

\* The markdown files on disk, and the one of them without speakable text.
MarkdownFiles == {MarkdownPath(c) : c \in ChapterFiles}
BlankMarkdown == {MarkdownPath(<<"c", "5", ".", "h", "t", "m", "l">>)}

\* The length of a file the generator has just written.
NarratedMs == 1000

\* entry.get("markdown"), as a truth value
HasMarkdown(entry) == "markdown" \in DOMAIN entry /\ entry.markdown # <<>>

\* _audio_path_from_entry: the stored path as it is, or
\* audio/{chapter_label}. {title}.m4a
audio_path_from_entry(entry) ==
    IF "audio" \in DOMAIN entry /\ entry.audio # <<>>
    THEN entry.audio
    ELSE LET chapter_label == IF Truthy(entry.chapter_number)
                              THEN Val(entry.chapter_number)
                              ELSE entry.order
             chapter_title == IF entry.chapter_title # <<>>
                              THEN entry.chapter_title
                              ELSE <<"C", "h", "a", "p", "t", "e", "r", " ">>
                                       \o StrOfInt(chapter_label)
         IN  AudioRoot \o StrOfInt(chapter_label) \o <<".", " ">>
                 \o Strip(chapter_title) \o <<".", "m", "4", "a">>

\* The dict chapters: keyed by chapter number, a later entry of the same
\* number replacing an earlier one.
Chapters(toc_entries) ==
    LET numbered == {i \in DOMAIN toc_entries : toc_entries[i].chapter_number # None}
    IN  [k \in {Val(toc_entries[i].chapter_number) : i \in numbered} |->
            toc_entries[CHOOSE i \in numbered :
                           /\ toc_entries[i].chapter_number = Some(k)
                           /\ \A j \in numbered :
                                 toc_entries[j].chapter_number = Some(k) => j <= i]]

\* start and end as the two defaults leave them: the least and the greatest
\* number of the entries with a markdown path, of all chapters when none has.
NarrationRange(toc_entries) ==
    LET markdown_chapters ==
            {Val(toc_entries[i].chapter_number) :
                i \in {j \in DOMAIN toc_entries :
                          /\ HasMarkdown(toc_entries[j])
                          /\ toc_entries[j].chapter_number # None}}
        span == IF markdown_chapters # {} THEN markdown_chapters
                ELSE DOMAIN Chapters(toc_entries)
    IN  [start |-> CHOOSE n \in span : \A m \in span : n <= m,
         end |-> CHOOSE n \in span : \A m \in span : m <= n]

\* The path is that of a file in audio/.
UnderAudio(path) ==
    Len(path) > Len(AudioRoot) /\ SubSeq(path, 1, Len(AudioRoot)) = AudioRoot

\* markdown_to_audio.generate has written output: the files after it.
Generate(files, output) ==
    {f \in files : f.path # output} \cup {[path |-> output, ms |-> Some(NarratedMs)]}

\* The loop over sorted(chapters), from the labels still to come: the files,
\* the list written, the generator's runs, whether audio/ was made, and how
\* the loop ended.
RECURSIVE NarrateLoop(_, _, _, _, _)
NarrateLoop(chapters, labels, overwrite, skip_existing, acc) ==
    IF labels = {} THEN acc
    ELSE LET chapter_label == CHOOSE n \in labels : \A m \in labels : n <= m
             entry == chapters[chapter_label]
             rest == labels \ {chapter_label}
             output_path == audio_path_from_entry(entry)
             made == [acc EXCEPT !.made = @ \/ UnderAudio(output_path)]
         IN  IF ~HasMarkdown(entry) \/ entry.markdown \notin MarkdownFiles
             THEN NarrateLoop(chapters, rest, overwrite, skip_existing, acc)
             ELSE IF (\E f \in acc.files : f.path = output_path)
                        /\ skip_existing /\ ~overwrite
             THEN NarrateLoop(chapters, rest, overwrite, skip_existing, made)
             ELSE IF entry.markdown \in BlankMarkdown
             THEN \* generate leaves with typer.Exit before it writes
                  [made EXCEPT !.status = "Exit",
                               !.narrated = Append(@, output_path)]
             ELSE NarrateLoop(chapters, rest, overwrite, skip_existing,
                              [made EXCEPT !.files = Generate(@, output_path),
                                           !.written = Append(@, output_path),
                                           !.narrated = Append(@, output_path)])

\* The files of a disk that lie in audio/, by their names.
InAudioDir(files) ==
    {[name |-> SubSeq(f.path, Len(AudioRoot) + 1, Len(f.path)), ms |-> f.ms] :
        f \in {g \in files : UnderAudio(g.path)}}

convert_from_toc ==
    /\ \E overwrite, skip_existing \in BOOLEAN :
          /\ call' = [fn |-> "convert_from_toc", overwrite |-> overwrite,
                      skip_existing |-> skip_existing]
          /\ IF ~toc_json.exists
             THEN /\ last' = [op |-> "convert_from_toc", status |-> "FileNotFoundError"]
                  /\ result' = NoResult
                  /\ narrated' = <<>>
                  /\ UNCHANGED <<audio_dir, outside>>
             ELSE IF DOMAIN Chapters(toc_json.entries) = {}
             THEN /\ last' = [op |-> "convert_from_toc", status |-> "ok"]
                  /\ result' = [done |-> TRUE, value |-> <<>>]
                  /\ narrated' = <<>>
                  /\ UNCHANGED <<audio_dir, outside>>
             ELSE \E range \in {NarrationRange(toc_json.entries)} :
                  \E out \in {NarrateLoop(Chapters(toc_json.entries),
                                          {n \in DOMAIN Chapters(toc_json.entries) :
                                              range.start <= n /\ n <= range.end},
                                          overwrite, skip_existing,
                                          [files |-> FilesOnDisk(Disk), written |-> <<>>,
                                           narrated |-> <<>>, made |-> FALSE,
                                           status |-> "ok"])} :
                     /\ last' = [op |-> "convert_from_toc", status |-> out.status]
                     /\ result' = IF out.status = "ok"
                                  THEN [done |-> TRUE, value |-> out.written]
                                  ELSE NoResult
                     /\ narrated' = out.narrated
                     /\ audio_dir' = [exists |-> audio_dir.exists \/ out.made,
                                      files |-> InAudioDir(out.files)]
                     /\ outside' = {f \in out.files : ~UnderAudio(f.path)}
    /\ UNCHANGED <<ncx, toc_json, ret, prev_ret, unchanged, book_dir, opf, cover,
                   index, resolved, warnings, prev_warnings, concat_txt,
                   chapters_txt, mux>>

---------------------------------------------------------------------------
(* The assembly on one book directory: a manifest, an audio directory, a    *)
(* cover or none, and the txt/ files of an earlier run or none.             *)

Entry(order, chapter_number, chapter_title) ==
    [order |-> order, chapter_number |-> chapter_number,
     chapter_title |-> chapter_title,
     chapter_path |-> Some(<<"c", "1", ".", "h", "t", "m", "l">>)]

\* The entry after a stage stored an audio path on it.
WithAudio(entry, audio) ==
    [f \in DOMAIN entry \cup {"audio"} |-> IF f = "audio" THEN audio ELSE entry[f]]

\* The entries a manifest is filled from: with and without a stored path, the
\* chapter number an int, 0 or null, the title empty or not.
EntryPool ==
    { WithAudio(Entry(1, Some(1), <<"P", "r", "o", "l", "o", "g", "u", "e">>),
                <<"a", "u", "d", "i", "o", "/", "1", ".", " ", "P", "r", "o", "l", "o", "g", "u", "e", ".", "m", "4", "a">>),
      Entry(2, Some(3), <<"P", "r", "o", "l", "o", "g", "u", "e">>),
      Entry(3, None, <<"T", "h", "e", " ", "F", "a", "l", "l">>),
      WithAudio(Entry(4, Some(4), <<>>),
                <<"4", ".", " ", "C", "h", "a", "p", "t", "e", "r", " ", "4", ".", "m", "4", "a">>),
      WithAudio(Entry(5, Some(0), <<"I", "n", "t", "r", "o">>),
                <<"/", "n", "a", "r", "r", "a", "t", "e", "d", "/", "0", ".", " ", "I", "n", "t", "r", "o", ".", "m", "4", "a">>) }

AudioFile(name, ms) == [name |-> name, ms |-> ms]

\* The files audio/ is filled from.
FilePool ==
    { AudioFile(<<"1", ".", " ", "P", "r", "o", "l", "o", "g", "u", "e", ".", "m", "4", "a">>, Some(60000)),
      AudioFile(<<"2", " ", "-", " ", "T", "h", "e", " ", "F", "a", "l", "l", ".", "m", "4", "a">>, Some(20000)),
      AudioFile(<<"3", "_", "E", "p", "i", "l", "o", "g", "u", "e", ".", "m", "4", "a">>, Some(45000)),
      AudioFile(<<"0", "1", ".", " ", "I", "n", "t", "r", "o", ".", "m", "4", "a">>, Some(0)),
      AudioFile(<<"4", ".", " ", "C", "h", "a", "p", "t", "e", "r", " ", "4", ".", "m", "4", "a">>, Some(30000)),
      AudioFile(<<"3", ".", " ", "B", "r", "o", "k", "e", "n", ".", "m", "4", "a">>, None) }

\* The files that may lie outside audio/: what a narration run with another
\* output directory left, its path stored on the entry.
OutsidePool ==
    { [path |-> <<"/", "n", "a", "r", "r", "a", "t", "e", "d", "/", "0", ".", " ", "I", "n", "t", "r", "o", ".", "m", "4", "a">>,
       ms |-> Some(15000)] }

\* The entries of a set in ascending order of their order field.
RECURSIVE Ascending(_)
Ascending(entries) ==
    IF entries = {} THEN <<>>
    ELSE LET first == CHOOSE e \in entries : \A x \in entries : e.order <= x.order
         IN  <<first>> \o Ascending(entries \ {first})

\* The same entries, last first.
Descending(entries) ==
    LET up == Ascending(entries)
    IN  [i \in DOMAIN up |-> up[Len(up) + 1 - i]]

\* Every manifest of at most n distinct entries of a pool, as generate_toc
\* writes it (ascending order) and turned round, which is what the sort of
\* _build_audiobook has to undo.
ManifestsFrom(pool, n) ==
    UNION {{Ascending(m), Descending(m)} :
              m \in {x \in SUBSET pool : Cardinality(x) <= n}}

ManifestsUpTo(n) == ManifestsFrom(EntryPool, n)

\* What an earlier run left in txt/.
OldConcat ==
    [exists |-> TRUE, lines |-> <<ConcatLine(<<"o", "l", "d", ".", "m", "4", "a">>)>>]
OldChapters ==
    [exists |-> TRUE, title |-> <<"O", "l", "d">>, artist |-> None,
     chapters |-> << [START |-> 0, END |-> 1000, title |-> <<"O", "l", "d">>] >>]

\* The book directory of the scenario of section 9.
DarkForest == <<"t", "h", "e", "_", "d", "a", "r", "k", "_", "f", "o", "r", "e", "s", "t", "_", "0", "2">>

\* The package document of that book.
DarkForestOpf ==
    Opf(Some(<<"T", "h", "e", " ", "D", "a", "r", "k", " ", "F", "o", "r", "e", "s", "t">>),
        <<<<"L", "i", "u", " ", "C", "i", "x", "i", "n">>>>)

\* The parts the names of other book directories are made of.
StemTokens ==
    { <<"t", "h", "e", "_">>, <<"d", "a", "r", "k">>, <<"0", "2">>, <<"-">>, <<"B">>, <<"0", "0", "7">> }

\* The package documents: none, not well-formed, without a title, with a
\* blank title and a blank creator, with a title and creators.
OpfPool ==
    { NoOpf, BadOpf,
      Opf(None, <<>>),
      Opf(None, <<<<"L", "i", "u", " ", "C", "i", "x", "i", "n">>>>),
      Opf(Some(<<" ">>), <<<<" ">>>>),
      Opf(Some(<<" ", "T", "h", "e", " ", "D", "a", "r", "k", " ", "F", "o", "r", "e", "s", "t">>),
          <<<<"L", "i", "u", " ", "C", "i", "x", "i", "n">>, <<" ">>, <<"K", "e", "n", " ", "L", "i", "u">>>>) }

\* The first chapter of the pool and its file.
PrologueEntry == CHOOSE e \in EntryPool : e.order = 1
PrologueFile == CHOOSE f \in FilePool : AudioRoot \o f.name = PrologueEntry.audio

\* Either any manifest, audio directory and leftover files of the pools in
\* the book directory of the scenario, or one chapter and its file in a book
\* directory of any name with any package document.
InitBook ==
    /\ ncx = NoNcx
    /\ ret = NoRet
    /\ prev_ret = NoRet
    /\ unchanged = TRUE
    /\ last = [op |-> "init", status |-> "ok"]
    /\ call = NoCall
    /\ result = NoResult
    /\ cover \in BOOLEAN
    /\ index = NoIndex
    /\ resolved = [entries |-> <<>>, paths |-> <<>>]
    /\ warnings = <<>>
    /\ prev_warnings = <<>>
    /\ mux = <<>>
    /\ narrated = <<>>
    /\ \/ /\ toc_json \in {[exists |-> FALSE, entries |-> <<>>]}
                          \cup {[exists |-> TRUE, entries |-> m] :
                                   m \in ManifestsUpTo(MaxEntries)}
          /\ audio_dir \in {[exists |-> FALSE, files |-> {}]}
                           \cup {[exists |-> TRUE, files |-> d] :
                                    d \in DirsUpTo(FilePool, MaxAudio)}
          /\ outside \in SUBSET OutsidePool
          /\ book_dir = DarkForest
          /\ opf = DarkForestOpf
          /\ \E old \in BOOLEAN :
                /\ concat_txt = IF old THEN OldConcat ELSE NoFile
                /\ chapters_txt = IF old THEN OldChapters ELSE NoFile
       \/ /\ toc_json = [exists |-> TRUE, entries |-> <<PrologueEntry>>]
          /\ audio_dir = [exists |-> TRUE, files |-> {PrologueFile}]
          /\ outside = {}
          /\ book_dir \in Concats(StemTokens, MaxTokens) \cup {DarkForest}
          /\ opf \in OpfPool
          /\ concat_txt = NoFile
          /\ chapters_txt = NoFile

NextBook == build_audiobook

SpecBook == InitBook /\ [][NextBook]_vars

---------------------------------------------------------------------------
(* Assembly runs on one book directory whose audio files the user renames   *)
(* between the runs.                                                        *)

\* The names the narration left takes under, which no entry matches.
Takes == { <<"t", "a", "k", "e", "1", ".", "m", "4", "a">>, <<"t", "a", "k", "e", "2", ".", "m", "4", "a">> }

\* The names the user gives a take.
RenameTargets ==
    { <<"2", " ", "-", " ", "T", "h", "e", " ", "F", "a", "l", "l", ".", "m", "4", "a">>, <<"3", ".", " ", "B", "r", "o", "k", "e", "n", ".", "m", "4", "a">> }

\* The files audio/ starts with: a take, a take ffprobe cannot read, and the
\* file of the first chapter.
RunFiles ==
    { AudioFile(<<"t", "a", "k", "e", "1", ".", "m", "4", "a">>, Some(20000)),
      AudioFile(<<"t", "a", "k", "e", "2", ".", "m", "4", "a">>, None),
      PrologueFile }

\* The entries of the manifest: the first three of the pool.
RunEntries == {e \in EntryPool : e.order <= 3}

\* The user gives a take in audio/ a name no other file there has.
rename_audio ==
    /\ audio_dir.exists
    /\ \E f \in {g \in audio_dir.files : g.name \in Takes} :
       \E name \in {n \in RenameTargets : \A g \in audio_dir.files : g.name # n} :
          audio_dir' = [audio_dir EXCEPT
                           !.files = (@ \ {f}) \cup {AudioFile(name, f.ms)}]
    /\ last' = [op |-> "rename_audio", status |-> "ok"]
    /\ UNCHANGED <<ncx, toc_json, ret, prev_ret, unchanged, call, result,
                   outside, book_dir, opf, cover, index, resolved, warnings,
                   prev_warnings, concat_txt, chapters_txt, mux, narrated>>

InitRuns ==
    /\ ncx = NoNcx
    /\ toc_json \in {[exists |-> TRUE, entries |-> m] :
                       m \in ManifestsFrom(RunEntries, MaxRunEntries)}
    /\ ret = NoRet
    /\ prev_ret = NoRet
    /\ unchanged = TRUE
    /\ last = [op |-> "init", status |-> "ok"]
    /\ call = NoCall
    /\ result = NoResult
    /\ audio_dir \in {[exists |-> TRUE, files |-> d] : d \in DirsUpTo(RunFiles, MaxFiles)}
    /\ outside = {}
    /\ book_dir = DarkForest
    /\ opf = DarkForestOpf
    /\ cover \in BOOLEAN
    /\ index = NoIndex
    /\ resolved = [entries |-> <<>>, paths |-> <<>>]
    /\ warnings = <<>>
    /\ prev_warnings = <<>>
    /\ concat_txt = NoFile
    /\ chapters_txt = NoFile
    /\ mux = <<>>
    /\ narrated = <<>>

NextRuns ==
    \/ build_audiobook
    \/ rename_audio

SpecRuns == InitRuns /\ [][NextRuns]_vars

---------------------------------------------------------------------------
(* The stages between the TOC builder and the narration, on a manifest of   *)
(* any shape in a book directory with or without its extracted tree.        *)

StageEntry(order, chapter_number, chapter_title, chapter_path) ==
    [order |-> order, chapter_number |-> chapter_number,
     chapter_title |-> chapter_title, chapter_path |-> chapter_path]

\* The entries the stages meet: the chapter file there or gone, the chapter
\* number an int, 0 or null, the title empty or not, an audio path stored
\* already, and a null chapter_path.
StagePool ==
    { StageEntry(1, Some(1), <<"P", "r", "o", "l", "o", "g", "u", "e">>, Some(<<"c", "1", ".", "h", "t", "m", "l">>)),
      StageEntry(2, Some(12), <<"E", "p", "i", "l", "o", "g", "u", "e">>, Some(<<"g", "o", "n", "e", ".", "h", "t", "m", "l">>)),
      StageEntry(3, None, <<>>, Some(<<"c", "7", ".", "h", "t", "m", "l">>)),
      WithAudio(StageEntry(4, Some(0), <<" ", "I", "n", "t", "r", "o">>, Some(<<"c", "0", ".", "h", "t", "m", "l">>)),
                <<"/", "n", "a", "r", "r", "a", "t", "e", "d", "/", "0", ".", " ", "I", "n", "t", "r", "o", ".", "m", "4", "a">>),
      StageEntry(5, Some(2), <<"T", "w", "o">>, None) }

InitStages ==
    /\ ncx \in {NoNcx, NoDir}
    /\ toc_json \in {[exists |-> FALSE, entries |-> <<>>]}
                    \cup {[exists |-> TRUE, entries |-> m] :
                             m \in ManifestsFrom(StagePool, MaxEntries)}
    /\ ret = NoRet
    /\ prev_ret = NoRet
    /\ unchanged = TRUE
    /\ last = [op |-> "init", status |-> "ok"]
    /\ call = NoCall
    /\ result = NoResult
    /\ BookIdle

NextStages ==
    \/ copy_chapters_from_toc
    \/ convert_to_markdown

SpecStages == InitStages /\ [][NextStages]_vars

---------------------------------------------------------------------------
(* The narration and the assembly on one book directory whose manifest the  *)
(* markdown stage has annotated, in part or in whole.                       *)

\* The entry after a stage stored the path of its markdown file on it.
WithMarkdown(entry, markdown) ==
    [f \in DOMAIN entry \cup {"markdown"} |->
        IF f = "markdown" THEN markdown ELSE entry[f]]

\* The entries the narration meets: chapter 0, a chapter numbered as the
\* order of another, an entry as convert_to_markdown leaves it, a markdown
\* file that is gone, a chapter number met twice and its markdown blank, an
\* audio path outside audio/, and an entry without number or markdown.
NarratePool ==
    { WithMarkdown(StageEntry(1, Some(0), <<"I", "n", "t", "r", "o">>, Some(<<"c", "0", ".", "h", "t", "m", "l">>)),
                   MarkdownPath(<<"c", "0", ".", "h", "t", "m", "l">>)),
      WithMarkdown(StageEntry(2, Some(1), <<"P", "r", "o", "l", "o", "g", "u", "e">>, Some(<<"c", "1", ".", "h", "t", "m", "l">>)),
                   MarkdownPath(<<"c", "1", ".", "h", "t", "m", "l">>)),
      Annotate(StageEntry(3, Some(2), <<" ", "T", "w", "o">>, Some(<<"c", "7", ".", "h", "t", "m", "l">>))),
      WithMarkdown(StageEntry(4, Some(3), <<"G", "o", "n", "e">>, Some(<<"g", "o", "n", "e", ".", "h", "t", "m", "l">>)),
                   MarkdownPath(<<"g", "o", "n", "e", ".", "h", "t", "m", "l">>)),
      WithMarkdown(StageEntry(5, Some(1), <<"A", "g", "a", "i", "n">>, Some(<<"c", "5", ".", "h", "t", "m", "l">>)),
                   MarkdownPath(<<"c", "5", ".", "h", "t", "m", "l">>)),
      WithMarkdown(WithAudio(StageEntry(6, Some(4), <<"F", "a", "r">>, Some(<<"c", "1", ".", "h", "t", "m", "l">>)),
                             <<"/", "n", "a", "r", "r", "a", "t", "e", "d", "/", "0", ".", " ", "I", "n", "t", "r", "o", ".", "m", "4", "a">>),
                   MarkdownPath(<<"c", "1", ".", "h", "t", "m", "l">>)),
      StageEntry(7, None, <<>>, Some(<<"c", "1", ".", "h", "t", "m", "l">>)) }

\* The files an earlier narration left in audio/.
NarratedFiles ==
    { AudioFile(<<"1", ".", " ", "I", "n", "t", "r", "o", ".", "m", "4", "a">>, Some(15000)),
      AudioFile(<<"1", ".", " ", "P", "r", "o", "l", "o", "g", "u", "e", ".", "m", "4", "a">>, Some(60000)),
      AudioFile(<<"2", ".", " ", "T", "w", "o", ".", "m", "4", "a">>, Some(45000)) }

InitNarrate ==
    /\ ncx = NoNcx
    /\ toc_json \in {[exists |-> FALSE, entries |-> <<>>]}
                    \cup {[exists |-> TRUE, entries |-> m] :
                             m \in ManifestsFrom(NarratePool, MaxRunEntries)}
    /\ ret = NoRet
    /\ prev_ret = NoRet
    /\ unchanged = TRUE
    /\ last = [op |-> "init", status |-> "ok"]
    /\ call = NoCall
    /\ result = NoResult
    /\ audio_dir \in {[exists |-> FALSE, files |-> {}]}
                     \cup {[exists |-> TRUE, files |-> d] :
                              d \in DirsUpTo(NarratedFiles, MaxFiles)}
    /\ outside \in SUBSET OutsidePool
    /\ book_dir = DarkForest
    /\ opf = DarkForestOpf
    /\ cover = TRUE
    /\ index = NoIndex
    /\ resolved = [entries |-> <<>>, paths |-> <<>>]
    /\ warnings = <<>>
    /\ prev_warnings = <<>>
    /\ concat_txt = NoFile
    /\ chapters_txt = NoFile
    /\ mux = <<>>
    /\ narrated = <<>>

NextNarrate ==
    \/ convert_from_toc
    \/ build_audiobook

SpecNarrate == InitNarrate /\ [][NextNarrate]_vars

---------------------------------------------------------------------------
(* Properties of the table-of-contents builder.                             *)

DigitSet == {DigitChars[i] : i \in 1..10}

\* t starts with one or more digits immediately followed by a period.
LeadingNumber(t) ==
    \E k \in 1..(Len(t) - 1) : (\A i \in 1..k : t[i] \in DigitSet) /\ t[k + 1] = "."

\* The number of digits t starts with, for a t with LeadingNumber(t).
PrefixDigits(t) ==
    CHOOSE k \in 1..(Len(t) - 1) : (\A i \in 1..k : t[i] \in DigitSet) /\ t[k + 1] = "."

\* generate_toc has just returned a manifest for the document ncx.
JustBuilt == last.op = "generate_toc" /\ ret.status = "ok"

Orders(toc) == {toc[i].order : i \in DOMAIN toc}

\* C1: every entry of the manifest generate_toc returns and persists has a
\* non-null integer chapter_number, and a navigation point whose title has no
\* parseable leading chapter number never appears in the manifest.
C1_EveryEntryNumbered ==
    /\ \A i \in DOMAIN ret.toc :
          ret.toc[i].chapter_number # None /\ Val(ret.toc[i].chapter_number) \in Int
    /\ \A i \in DOMAIN toc_json.entries :
          /\ toc_json.entries[i].chapter_number # None
          /\ Val(toc_json.entries[i].chapter_number) \in Int
    /\ JustBuilt =>
          \A k \in DOMAIN ncx.points :
              ~LeadingNumber(NavTitle(ncx.points[k])) => k \notin Orders(ret.toc)

\* C1 happens: a manifest with entries was built from a document that also
\* holds a navigation point without a chapter number.
C1_Witness ==
    /\ JustBuilt
    /\ ret.toc # <<>>
    /\ toc_json.entries = ret.toc
    /\ \E k \in DOMAIN ncx.points : ~LeadingNumber(NavTitle(ncx.points[k]))

\* C2: the order values are strictly increasing along the manifest, and each
\* entry's order is the 1-based position of its navigation point among all the
\* navigation points of the document, the filtered ones included.
C2_OrderIsDocumentPosition ==
    JustBuilt =>
        /\ \A i, j \in DOMAIN ret.toc : i < j => ret.toc[i].order < ret.toc[j].order
        /\ \A i \in DOMAIN ret.toc :
              /\ ret.toc[i].order \in DOMAIN ncx.points
              /\ ret.toc[i].chapter_path = NavPath(ncx.points[ret.toc[i].order])
              /\ LeadingNumber(NavTitle(ncx.points[ret.toc[i].order]))

\* C2 happens: two survivors on either side of a filtered navigation point.
C2_Witness ==
    /\ JustBuilt
    /\ Len(ret.toc) = 2
    /\ ret.toc[1].order = 1
    /\ ret.toc[2].order = 3

\* C3: for a navigation point titled '<digits>. <rest>' the chapter_title stored
\* in the manifest is <rest>, the title with exactly that prefix removed.
C3_TitleLosesExactlyThePrefix ==
    JustBuilt =>
        \A i \in DOMAIN ret.toc :
            LET t == NavTitle(ncx.points[ret.toc[i].order])
            IN  (LeadingNumber(t) /\ Len(t) >= PrefixDigits(t) + 2
                              /\ t[PrefixDigits(t) + 2] = " ")
                    => ret.toc[i].chapter_title = SubSeq(t, PrefixDigits(t) + 3, Len(t))

ScenarioDoc ==
    NavMap(<< NavPoint(Some(<<"1", ".", " ", "P", "r", "o", "l", "o", "g", "u", "e">>),
                       Some(<<"c", "1", ".", "h", "t", "m", "l">>)),
              NavPoint(Some(<<"2", ".", " ", "f", "o", "n", "t", "-", "e", "m", "b", "e", "d", ".", "o", "t", "f">>),
                       Some(<<"f", ".", "o", "t", "f">>)),
              NavPoint(Some(<<"A", "c", "k", "n", "o", "w", "l", "e", "d", "g", "m", "e", "n", "t", "s">>),
                       Some(<<"a", "c", "k", ".", "h", "t", "m", "l">>)) >>)

\* C4: the manifest holds exactly the navigation points whose title starts with
\* digits and a period (whatever the number, 0 included) and which the
\* classifier does not skip, in document order; the points '1. Prologue',
\* '2. font-embed.otf', 'Acknowledgments' give the one entry
\* {order 1, chapter number 1, title 'Prologue'}.
C4_ExactlyNumberedNonBackMatter ==
    JustBuilt =>
        /\ Orders(ret.toc) =
              {k \in DOMAIN ncx.points :
                  /\ LeadingNumber(NavTitle(ncx.points[k]))
                  /\ ~should_skip_entry(NavTitle(ncx.points[k]), NavPath(ncx.points[k]))}
        /\ \A i, j \in DOMAIN ret.toc : i < j => ret.toc[i].order < ret.toc[j].order
        /\ ncx = ScenarioDoc =>
              ret.toc = << [order |-> 1,
                            chapter_number |-> Some(1),
                            chapter_title |-> <<"P", "r", "o", "l", "o", "g", "u", "e">>,
                            chapter_path |-> Some(<<"c", "1", ".", "h", "t", "m", "l">>)] >>

Annotations == {"markdown", "audio"}

\* C5: a generate_toc run on the document a manifest was built from, after
\* convert_to_markdown annotated that manifest, leaves the markdown and audio
\* fields of every surviving entry present and unchanged in json/toc.json.
C5_RerunKeepsAnnotations ==
    [][ (last'.op = "generate_toc" /\ ret'.status = "ok"
            /\ unchanged /\ ret.status = "ok" /\ toc_json.exists)
        => \A i \in DOMAIN toc_json.entries : \A j \in DOMAIN toc_json'.entries :
              toc_json'.entries[j].order = toc_json.entries[i].order
              => \A f \in Annotations \cap DOMAIN toc_json.entries[i] :
                    /\ f \in DOMAIN toc_json'.entries[j]
                    /\ toc_json'.entries[j][f] = toc_json.entries[i][f] ]_vars

\* C6: whenever generate_toc returns a manifest, json/toc.json holds that
\* manifest, also for a document with no navigation map or with an empty one.
C6_PersistedIsReturned ==
    JustBuilt => toc_json.exists /\ toc_json.entries = ret.toc

\* C7: generate_toc fails with a not-found error when the extracted directory or
\* toc.ncx is absent and with a parse error when toc.ncx is malformed XML, and
\* a failing call leaves json/toc.json exactly as it was.
C7_FailureLeavesManifest ==
    [][ last'.op = "generate_toc"
        => /\ ncx.kind \in {"nodir", "absent"}
                => ret'.status = "FileNotFoundError" /\ toc_json' = toc_json
           /\ ncx.kind = "malformed"
                => ret'.status = "ParseError" /\ toc_json' = toc_json
           /\ ret'.status # "ok" => toc_json' = toc_json ]_vars

\* C7 happens: generate_toc failed on a malformed document while a manifest
\* with annotated entries was on disk.
C7_Witness ==
    /\ last.op = "generate_toc"
    /\ ret.status = "ParseError"
    /\ toc_json.exists
    /\ \E i \in DOMAIN toc_json.entries : "markdown" \in DOMAIN toc_json.entries[i]

Core(entry) ==
    [order |-> entry.order,
     chapter_number |-> entry.chapter_number,
     chapter_title |-> entry.chapter_title,
     chapter_path |-> entry.chapter_path]

\* C8: two generate_toc runs on an unchanged navigation document return
\* manifests that agree entry by entry on order, chapter_number, chapter_title
\* and chapter_path, whatever json/toc.json held before the second run.
C8_RerunIsDeterministic ==
    (ret.status = "ok" /\ prev_ret.status = "ok") =>
        /\ Len(ret.toc) = Len(prev_ret.toc)
        /\ \A i \in DOMAIN ret.toc : Core(ret.toc[i]) = Core(prev_ret.toc[i])

\* C8 happens: the document was built twice and both runs returned entries.
C8_Witness ==
    /\ last.op = "generate_toc"
    /\ ret.status = "ok"
    /\ prev_ret.status = "ok"
    /\ Len(ret.toc) >= 2

---------------------------------------------------------------------------
(* Properties of the leaf functions.                                        *)

\* w occurs in s.
HasSub(s, w) == \E i \in 1..(Len(s) + 1) : \E j \in 0..Len(s) : SubSeq(s, i, j) = w

\* s ends with w.
HasSuffix(s, w) == \E i \in 1..(Len(s) + 1) : SubSeq(s, i, Len(s)) = w

KeywordSet == {BACK_MATTER_KEYWORDS[k] : k \in DOMAIN BACK_MATTER_KEYWORDS}
FontExtensionSet == {FONT_EXTENSIONS[i] : i \in DOMAIN FONT_EXTENSIONS}

\* C9: _should_skip_entry(title, path) is true exactly when the lowercased title
\* or the lowercased path contains "font", or the path (read without its
\* surrounding whitespace and without regard to case) ends with .ttf, .otf,
\* .woff or .woff2, or the lowercased title contains a back-matter keyword; it
\* is false otherwise, and an absent path is read as the empty path.
C9_SkipExactlyFontOrBackMatter ==
    (result.done /\ call.fn = "should_skip_entry") =>
        LET title == Lower(Val(call.title))
            path == IF call.path = None THEN <<>> ELSE Lower(Val(call.path))
        IN  result.value =
               \/ HasSub(title, FontWord)
               \/ HasSub(path, FontWord)
               \/ \E ext \in FontExtensionSet : HasSuffix(Strip(path), ext)
               \/ \E keyword \in KeywordSet : HasSub(title, keyword)

\* C9 happens: an entry is skipped on its path's extension alone, written in
\* upper case.
C9_Witness ==
    /\ result.done
    /\ call.fn = "should_skip_entry"
    /\ result.value = TRUE
    /\ call.path # None
    /\ ~HasSub(Lower(Val(call.path)), FontWord)
    /\ ~HasSub(Lower(Val(call.title)), FontWord)
    /\ \A keyword \in KeywordSet : ~HasSub(Lower(Val(call.title)), keyword)
    /\ HasSuffix(Val(call.path), <<".", "T", "T", "F">>)

\* The value of a decimal numeral.
RECURSIVE DecimalValue(_)
DecimalValue(ds) ==
    IF ds = <<>> THEN 0
    ELSE DigitValue(Head(ds)) * 10 ^ (Len(ds) - 1) + DecimalValue(Tail(ds))

---------------------------------------------------------------------------
(* Properties of the audiobook assembly's leaf functions.                   *)

LowerSet == {LowerChars[i] : i \in 1..26}

\* A call of the leaf function fn has returned.
Returned(fn) == call.fn = fn /\ result.done

\* C19: _normalize_title is idempotent, normalizing its result again gives the
\* same result, and the result holds only lowercase letters, digits and
\* spaces, each space standing alone between two other characters.
C19_NormalizeIdempotent ==
    Returned("normalize_title") =>
        LET r == result.value
        IN  /\ normalize_title(r) = r
            /\ \A i \in DOMAIN r : r[i] \in LowerSet \cup DigitSet \cup {" "}
            /\ \A i \in DOMAIN r :
                  r[i] = " " => /\ 1 < i /\ i < Len(r)
                                /\ r[i - 1] # " " /\ r[i + 1] # " "

\* An uppercase letter, a run of punctuation and whitespace, a letter: "a b".
C19_Witness ==
    /\ Returned("normalize_title")
    /\ call.value = <<"A", "-", " ", "b">>
    /\ result.value = <<"a", " ", "b">>

\* The five characters the ffmetadata format reserves.
Reserved == {"\\", "\n", "=", ";", "#"}

\* s with every character c for which Image gives another str replaced by it.
EachChar(s, Image(_)) ==
    LET Out[i \in 0..Len(s)] ==
            IF i = 0 THEN <<>> ELSE Out[i - 1] \o Image(s[i])
    IN  Out[Len(s)]

\* Every reserved character preceded by a backslash, every other one copied.
BackslashEscaped(c) == IF c \in Reserved THEN <<"\\", c>> ELSE <<c>>

\* As BackslashEscaped, but a newline becomes a space.
EscapedOrFlattened(c) ==
    IF c = "\n" THEN <<" ">> ELSE BackslashEscaped(c)

\* The value an escaped value stands for: each backslash is dropped and the
\* character after it kept.
RECURSIVE Unescape(_)
Unescape(s) ==
    IF s = <<>> THEN <<>>
    ELSE IF Head(s) = "\\" /\ Len(s) >= 2
    THEN <<s[2]>> \o Unescape(SubSeq(s, 3, Len(s)))
    ELSE <<Head(s)>> \o Unescape(Tail(s))

\* C16 as stated: _escape_ffmetadata puts a backslash before every backslash,
\* newline, '=', ';' and '#', copies every other character, and the value can
\* be recovered from the escaped value.
C16_EscapesAllFive ==
    Returned("escape_ffmetadata") =>
        /\ result.value = EachChar(call.value, BackslashEscaped)
        /\ Unescape(result.value) = call.value

\* C16 amended: a backslash goes before every backslash, '=', ';' and '#', a
\* newline becomes a space, every other character is copied, and a value
\* without a newline can be recovered from the escaped value.
C16_EscapesFourFlattensNewline ==
    Returned("escape_ffmetadata") =>
        /\ result.value = EachChar(call.value, EscapedOrFlattened)
        /\ "\n" \notin CharsOf(call.value) => Unescape(result.value) = call.value

\* A value with a backslash, an '=' and a newline has been escaped.
C16_Witness ==
    /\ Returned("escape_ffmetadata")
    /\ call.value = <<"\\", "=", "\n">>
    /\ result.value = <<"\\", "\\", "\\", "=", " ">>

\* The audio files of the directory handed to _index_audio_files.
AudioNames == {f \in call.dir.names : Lower(Suffix(f)) \in AudioSuffixes}

\* stem begins, after optional whitespace, with a numeral.
LeadingNumeral(stem) == DigitRun(LStripChars(stem, Whitespace)) >= 1

\* The value of that numeral.
NumeralOf(stem) ==
    LET s == LStripChars(stem, Whitespace)
    IN  IntOfDigits(SubSeq(s, 1, DigitRun(s)))

\* What follows the numeral and the whitespace after it.
AfterNumeral(stem) ==
    LET s == LStripChars(stem, Whitespace)
    IN  LStripChars(SubSeq(s, DigitRun(s) + 1, Len(s)), Whitespace)

\* The numeral is followed by one of the punctuation characters.
Punctuated(stem) ==
    /\ LeadingNumeral(stem)
    /\ AfterNumeral(stem) # <<>>
    /\ Head(AfterNumeral(stem)) \in StemPunctuation

\* The title fragment of a stem with a leading numeral: what follows the
\* numeral and the punctuation, if any.
Remainder(stem) ==
    IF Punctuated(stem) THEN Strip(Tail(AfterNumeral(stem)))
    ELSE Strip(AfterNumeral(stem))

\* C17 as stated: a file is registered under its leading number whenever its
\* stem begins with a numeral, with or without punctuation after it, and its
\* remainder (when non-empty) as the normalized title; only a stem without a
\* leading numeral is registered by its whole normalized stem.
C17_NumeralAloneRegisters ==
    Returned("index_audio_files") /\ call.dir.exists =>
        LET numbered == {f \in AudioNames : LeadingNumeral(Stem(f))}
        IN  /\ DOMAIN result.value.by_number = {NumeralOf(Stem(f)) : f \in numbered}
            /\ DOMAIN result.value.by_title =
                  {normalize_title(Remainder(Stem(f))) :
                      f \in {g \in numbered : Remainder(Stem(g)) # <<>>}}
                  \cup {normalize_title(Stem(f)) : f \in AudioNames \ numbered}

\* C17 amended: a file is registered under its leading number only when the
\* numeral is followed, after optional whitespace, by a punctuation character
\* of the pattern, and then its remainder (when non-empty) is registered as
\* the normalized title; every other stem, a bare numeral and a numeral
\* followed by plain text included, is registered by its whole normalized
\* stem as a title only.
C17_PunctuatedNumeralRegisters ==
    Returned("index_audio_files") /\ call.dir.exists =>
        LET numbered == {f \in AudioNames : Punctuated(Stem(f))}
        IN  /\ DOMAIN result.value.by_number = {NumeralOf(Stem(f)) : f \in numbered}
            /\ DOMAIN result.value.by_title =
                  {normalize_title(Remainder(Stem(f))) :
                      f \in {g \in numbered : Remainder(Stem(g)) # <<>>}}
                  \cup {normalize_title(Stem(f)) : f \in AudioNames \ numbered}

\* "3 The Fall.m4a" and "3 - The Fall.m4a" have been indexed: the second alone
\* is under number 3, the first is under the title "3 the fall".
C17_Witness ==
    /\ Returned("index_audio_files")
    /\ call.dir.names = { <<"3", " ", "T", "h", "e", " ", "F", "a", "l", "l", ".", "m", "4", "a">>,
                          <<"3", " ", "-", " ", "T", "h", "e", " ", "F", "a", "l", "l", ".", "m", "4", "a">> }
    /\ DOMAIN result.value.by_number = {3}
    /\ result.value.by_number[3] =
          <<"3", " ", "-", " ", "T", "h", "e", " ", "F", "a", "l", "l", ".", "m", "4", "a">>
    /\ DOMAIN result.value.by_title =
          { <<"3", " ", "t", "h", "e", " ", "f", "a", "l", "l">>,
            <<"t", "h", "e", " ", "f", "a", "l", "l">> }

\* The audio files that register the number n.
RegisterNumber(n) ==
    {f \in AudioNames : Punctuated(Stem(f)) /\ NumeralOf(Stem(f)) = n}

\* The audio files that register the normalized title t.
RegisterTitle(t) ==
    {f \in AudioNames :
        IF Punctuated(Stem(f))
        THEN Remainder(Stem(f)) # <<>> /\ normalize_title(Remainder(Stem(f))) = t
        ELSE normalize_title(Stem(f)) = t}

\* path is the first of the files in ascending filename order.
Smallest(path, files) ==
    path \in files /\ \A g \in files \ {path} : StrLess(path, g)

\* C18: in both indices the first file in ascending filename order wins: the
\* path under a number, and under a normalized title, is the lexically
\* smallest audio file of the directory that registers that key.
C18_FirstFileWins ==
    Returned("index_audio_files") =>
        /\ \A n \in DOMAIN result.value.by_number :
              Smallest(result.value.by_number[n], RegisterNumber(n))
        /\ \A t \in DOMAIN result.value.by_title :
              Smallest(result.value.by_title[t], RegisterTitle(t))

\* "03 - The Fall.m4a" and "3 - The Fall.m4a" collide on number 3 and on the
\* title "the fall"; both keys hold the first of the two.
C18_Witness ==
    /\ Returned("index_audio_files")
    /\ call.dir.names = { <<"0", "3", " ", "-", " ", "T", "h", "e", " ", "F", "a", "l", "l", ".", "m", "4", "a">>,
                          <<"3", " ", "-", " ", "T", "h", "e", " ", "F", "a", "l", "l", ".", "m", "4", "a">> }
    /\ result.value.by_number[3] =
          <<"0", "3", " ", "-", " ", "T", "h", "e", " ", "F", "a", "l", "l", ".", "m", "4", "a">>
    /\ result.value.by_title[<<"t", "h", "e", " ", "f", "a", "l", "l">>] =
          <<"0", "3", " ", "-", " ", "T", "h", "e", " ", "F", "a", "l", "l", ".", "m", "4", "a">>

---------------------------------------------------------------------------
(* Properties of the audiobook assembly.                                    *)

\* _build_audiobook has ended, and it had a manifest to read.
Built == last.op = "_build_audiobook" /\ toc_json.exists

\* The paths of the files on a disk that an entry's stored path names, as it
\* is or below audio/.
StoredHitOn(entry, disk) ==
    IF "audio" \in DOMAIN entry
    THEN {f.path :
            f \in {g \in FilesOnDisk(disk) :
                      entry.audio = g.path \/ AudioRoot \o entry.audio = g.path}}
    ELSE {}

\* The path a by-number index holds for the entry's chapter number.
NumberHitOn(entry, idx) ==
    IF entry.chapter_number # None /\ Val(entry.chapter_number) \in DOMAIN idx.by_number
    THEN {AudioRoot \o idx.by_number[Val(entry.chapter_number)]}
    ELSE {}

\* The path a by-number index holds for the entry's order.
OrderHitOn(entry, idx) ==
    IF entry.order \in DOMAIN idx.by_number
    THEN {AudioRoot \o idx.by_number[entry.order]}
    ELSE {}

\* The path a by-title index holds for the entry's normalized title.
TitleHitOn(entry, idx) ==
    IF Strip(entry.chapter_title) # <<>>
       /\ normalize_title(entry.chapter_title) \in DOMAIN idx.by_title
    THEN {AudioRoot \o idx.by_title[normalize_title(entry.chapter_title)]}
    ELSE {}

\* The hit of the first tier that has one.
FirstHitOn(entry, disk, idx) ==
    IF StoredHitOn(entry, disk) # {} THEN StoredHitOn(entry, disk)
    ELSE IF NumberHitOn(entry, idx) # {} THEN NumberHitOn(entry, idx)
    ELSE IF OrderHitOn(entry, idx) # {} THEN OrderHitOn(entry, idx)
    ELSE TitleHitOn(entry, idx)

\* The same on the disk and the index of the latest run.
StoredHit(entry) == StoredHitOn(entry, Disk)
NumberHit(entry) == NumberHitOn(entry, index)
OrderHit(entry) == OrderHitOn(entry, index)
TitleHit(entry) == TitleHitOn(entry, index)
FirstHit(entry) == FirstHitOn(entry, Disk, index)

\* C11: each resolved entry has the path of the first tier that hits, in the
\* order stored path, chapter number, order, title: the stored path wins over
\* a matching chapter number, and the chapter number wins over the order and
\* the title.
C11_FirstTierWins ==
    Built =>
        \A i \in DOMAIN resolved.entries :
            {resolved.paths[i]} = FirstHit(resolved.entries[i])

\* One entry resolved to its stored path although its chapter number is
\* indexed to another file, and one without a stored path resolved by its
\* chapter number although its title is indexed to another file.
C11_Witness ==
    /\ Built
    /\ \E i \in DOMAIN resolved.entries :
          LET entry == resolved.entries[i]
          IN  /\ StoredHit(entry) = {resolved.paths[i]}
              /\ NumberHit(entry) # {}
              /\ NumberHit(entry) # StoredHit(entry)
    /\ \E j \in DOMAIN resolved.entries :
          LET entry == resolved.entries[j]
          IN  /\ StoredHit(entry) = {}
              /\ NumberHit(entry) = {resolved.paths[j]}
              /\ TitleHit(entry) # {}
              /\ TitleHit(entry) # NumberHit(entry)

\* The entries of a sequence of entries.
Range(s) == {s[i] : i \in DOMAIN s}

\* ffprobe reads every resolved file.
ProbesSucceed ==
    \A i \in DOMAIN resolved.paths :
        \A f \in FilesOnDisk(Disk) :
            f.path = resolved.paths[i] => f.ms # None

\* C12: reconciliation partitions the manifest: every entry is either resolved,
\* with exactly one path, or reported unmatched and left out, never both and
\* never neither; the resolved entries are in ascending order; and with
\* at least one entry resolved an unmatched entry does not abort the run.
C12_ReconciliationPartitions ==
    Built =>
        /\ Len(resolved.paths) = Len(resolved.entries)
        /\ Range(resolved.entries) \cup Range(warnings) = Range(toc_json.entries)
        /\ Range(resolved.entries) \cap Range(warnings) = {}
        /\ Len(resolved.entries) + Len(warnings) = Len(toc_json.entries)
        /\ \A i, j \in DOMAIN resolved.entries :
              i < j => resolved.entries[i].order < resolved.entries[j].order
        /\ (resolved.paths # <<>> /\ cover /\ ProbesSucceed) => last.status = "ok"

\* A manifest that was not in ascending order, with an entry resolved and an
\* entry unmatched, and the run ended well.
C12_Witness ==
    /\ Built
    /\ last.status = "ok"
    /\ warnings # <<>>
    /\ Len(resolved.entries) = 2
    /\ toc_json.entries # SortByOrder(toc_json.entries)

\* Two entries of the manifest, neither with a stored path on disk, the first
\* with a chapter number the by-number index holds, the second with no such
\* chapter number and with that number as its order.
SameFileTwice(a, b) ==
    /\ a # b
    /\ StoredHit(a) = {} /\ StoredHit(b) = {}
    /\ NumberHit(a) # {} /\ NumberHit(b) = {}
    /\ b.order = Val(a.chapter_number)

\* C13: the reconciler does not enforce one-to-one consumption: when one entry
\* hits a file by its chapter number and another hits the same file by its
\* order, both are in the resolved list, with the same path.
C13_SameFileResolvesTwice ==
    Built =>
        \A a, b \in Range(toc_json.entries) :
            SameFileTwice(a, b) =>
                \E i, j \in DOMAIN resolved.entries :
                    /\ i # j
                    /\ resolved.entries[i] = a /\ resolved.entries[j] = b
                    /\ resolved.paths[i] = resolved.paths[j]

\* Such a manifest and audio directory have been reconciled.
C13_Witness ==
    /\ Built
    /\ \E a, b \in Range(toc_json.entries) : SameFileTwice(a, b)
    /\ \E i, j \in DOMAIN resolved.paths : i # j /\ resolved.paths[i] = resolved.paths[j]

\* The duration ffprobe reports for the i-th resolved file.
ProbedDuration(i) ==
    Val((CHOOSE f \in FilesOnDisk(Disk) : f.path = resolved.paths[i]).ms)

\* The sum of the durations of the first n resolved files.
RECURSIVE DurationsUpTo(_)
DurationsUpTo(n) ==
    IF n = 0 THEN 0 ELSE DurationsUpTo(n - 1) + ProbedDuration(n)

\* _build_audiobook has ended well: chapters.txt is the one it wrote.
Assembled == Built /\ last.status = "ok"

\* C14: the chapter boundaries are contiguous in manifest order: the first
\* START is 0, each END is its START plus the probed duration, each START is
\* the END before it, so START of chapter i is the sum of the durations
\* before it and the last END is the sum of all durations.
C14_BoundariesContiguous ==
    Assembled =>
        LET chapters == chapters_txt.chapters
            N == Len(chapters)
        IN  /\ N = Len(resolved.paths)
            /\ chapters[1].START = 0
            /\ \A i \in 1..N : chapters[i].END = chapters[i].START + ProbedDuration(i)
            /\ \A i \in 1..(N - 1) : chapters[i + 1].START = chapters[i].END
            /\ \A i \in 1..N : chapters[i].START = DurationsUpTo(i - 1)
            /\ chapters[N].END = DurationsUpTo(N)

\* Three chapters of 60000, 45000 and 30000 ms: [0, 60000), [60000, 105000),
\* [105000, 135000).
C14_Witness ==
    /\ Assembled
    /\ Len(chapters_txt.chapters) = 3
    /\ [i \in 1..3 |-> <<chapters_txt.chapters[i].START, chapters_txt.chapters[i].END>>]
          = << <<0, 60000>>, <<60000, 105000>>, <<105000, 135000>> >>

\* The raw title of the i-th resolved entry: its chapter_title, or the stem
\* of its audio file when it has none.
RawTitle(i) ==
    IF resolved.entries[i].chapter_title # <<>>
    THEN resolved.entries[i].chapter_title
    ELSE Stem(BaseName(resolved.paths[i]))

\* The title the i-th boundary is to carry: "Chapter {n}: {title}" when the
\* entry has a chapter number, whatever its value, and the raw title otherwise.
RenderedTitle(i) ==
    IF resolved.entries[i].chapter_number # None
    THEN <<"C", "h", "a", "p", "t", "e", "r", " ">>
            \o StrOfInt(Val(resolved.entries[i].chapter_number))
            \o <<":", " ">> \o RawTitle(i)
    ELSE RawTitle(i)

\* C15: the title of each chapter boundary is "Chapter {n}: {title}" when the
\* entry has a chapter number n, and the entry's raw title otherwise (as
\* chapters.txt holds it, escaped).
C15_TitleRendered ==
    Assembled =>
        \A i \in 1..Len(chapters_txt.chapters) :
            chapters_txt.chapters[i].title = escape_ffmetadata(RenderedTitle(i))

\* C20: a missing cover image and zero resolved audio files are each fatal
\* for _build_audiobook: a run that reads the manifest and finds no cover, or
\* resolves no audio file, ends with a not-found error, leaves concat.txt and
\* chapters.txt as they were and never runs ffmpeg.
C20_MissingCoverOrAudioIsFatal ==
    [][ (/\ last'.op = "_build_audiobook"
         /\ toc_json.exists
         /\ (~cover \/ resolved'.paths = <<>>))
        => /\ last'.status = "FileNotFoundError"
           /\ concat_txt' = concat_txt
           /\ chapters_txt' = chapters_txt
           /\ mux' = <<>> ]_vars

\* A run that resolved audio files and found no cover: it ended with the
\* not-found error and the files of an earlier run are still there.
C20_Witness ==
    /\ Built
    /\ toc_json.exists
    /\ ~cover
    /\ resolved.paths # <<>>
    /\ last.status = "FileNotFoundError"
    /\ concat_txt = OldConcat
    /\ chapters_txt = OldChapters
    /\ mux = <<>>

\* The positions of the resolved paths, as they will be after the step, whose
\* file ffprobe cannot read.
FailingProbes ==
    {i \in DOMAIN resolved'.paths :
        \E f \in FilesOnDisk(Disk) :
            f.path = resolved'.paths[i] /\ f.ms = None}

\* C21: a duration-probe failure on a resolved chapter is fatal: a run that
\* gets as far as probing (audio resolved, cover found) and meets a file
\* ffprobe cannot read ends with the error, writes no chapters.txt, so none
\* that holds a prefix of the chapters, and never runs ffmpeg.
C21_ProbeFailureIsFatal ==
    [][ (/\ last'.op = "_build_audiobook"
         /\ toc_json.exists
         /\ cover
         /\ FailingProbes # {})
        => /\ last'.status = "CalledProcessError"
           /\ chapters_txt' = chapters_txt
           /\ mux' = <<>> ]_vars

\* A run whose first file was probed and whose second could not be: the
\* chapters.txt of an earlier run is still there.
C21_Witness ==
    /\ Built
    /\ last.status = "CalledProcessError"
    /\ Len(resolved.paths) >= 2
    /\ \E f \in FilesOnDisk(Disk) :
          f.path = resolved.paths[1] /\ f.ms # None
    /\ chapters_txt = OldChapters
    /\ concat_txt.exists /\ Len(concat_txt.lines) = Len(resolved.paths)
    /\ mux = <<>>

\* C22 as stated: whenever audio/ does not exist, _build_audiobook aborts with
\* the not-found error and never runs ffmpeg, whatever paths the entries store.
C22_AbsentAudioDirIsFatal ==
    [][ (/\ last'.op = "_build_audiobook"
         /\ toc_json.exists
         /\ ~audio_dir.exists)
        => /\ last'.status = "FileNotFoundError"
           /\ mux' = <<>> ]_vars

\* C22, amended: whenever audio/ does not exist and no entry stores the path
\* of a file that exists, _build_audiobook aborts with the not-found error,
\* writes nothing and never runs ffmpeg; an entry whose stored path names a
\* file elsewhere on the disk is resolved to it all the same.
C22_AbsentAudioDirAndNoStoredFileIsFatal ==
    [][ (/\ last'.op = "_build_audiobook"
         /\ toc_json.exists
         /\ ~audio_dir.exists)
        => /\ \A i \in DOMAIN toc_json.entries :
                 StoredHit(toc_json.entries[i]) # {}
                     => \E j \in DOMAIN resolved'.entries :
                           /\ resolved'.entries[j] = toc_json.entries[i]
                           /\ {resolved'.paths[j]} = StoredHit(toc_json.entries[i])
           /\ (\A i \in DOMAIN toc_json.entries : StoredHit(toc_json.entries[i]) = {})
                 => /\ last'.status = "FileNotFoundError"
                    /\ resolved'.paths = <<>>
                    /\ concat_txt' = concat_txt
                    /\ chapters_txt' = chapters_txt
                    /\ mux' = <<>> ]_vars

\* A run without audio/ on a manifest whose entries store paths, none of them
\* of a file that exists, with a cover: it ended with the not-found error.
C22_Witness ==
    /\ Built
    /\ ~audio_dir.exists
    /\ outside = {}
    /\ cover
    /\ \E i \in DOMAIN toc_json.entries : "audio" \in DOMAIN toc_json.entries[i]
    /\ last.status = "FileNotFoundError"
    /\ resolved.paths = <<>>
    /\ Len(warnings) = Len(toc_json.entries)
    /\ mux = <<>>

\* The package document gives no title: there is none, it does not parse, or
\* it has no title element.
NoOpfTitle == opf.kind # "parsed" \/ opf.title = None

\* The words of a title: its maximal runs of characters other than a space.
TitleWords(title) == Split(title)

\* A title in humanized form: letters and digits in words set apart by single
\* spaces, a letter in upper case exactly when no letter comes before it, and
\* no word of digits with a leading zero.
Humanized(title) ==
    /\ \A i \in DOMAIN title : title[i] \in Alnum \cup {" "}
    /\ title = Join(<<" ">>, TitleWords(title))
    /\ \A i \in DOMAIN title :
          IsCased(title[i]) =>
              IF i > 1 /\ IsCased(title[i - 1])
              THEN title[i] = LowerChar(title[i])
              ELSE title[i] = UpperChar(title[i])
    /\ \A i \in DOMAIN TitleWords(title) :
          LET word == TitleWords(title)[i]
          IN  (\A k \in DOMAIN word : IsDigit(word[k]))
                  => Len(word) = 1 \/ word[1] # "0"

\* C23: when the package document is absent, does not parse or has no title
\* element, the run is not aborted for it, the book title is the humanized
\* stem of the book (the_dark_forest_02 gives The Dark Forest 2), and a
\* package document that does not parse gives no author.
C23_MetadataFallsBack ==
    (Built /\ NoOpfTitle /\ cover /\ resolved.paths # <<>> /\ ProbesSucceed) =>
        /\ last.status = "ok"
        /\ Len(mux) = 1
        /\ chapters_txt.title = humanize_stem(book_dir)
        /\ mux[1].output = chapters_txt.title \o M4b
        /\ Humanized(chapters_txt.title)
        /\ book_dir = DarkForest
              => chapters_txt.title = <<"T", "h", "e", " ", "D", "a", "r", "k", " ", "F", "o", "r", "e", "s", "t", " ", "2">>
        /\ opf.kind = "malformed" => chapters_txt.artist = None

\* The scenario: a package document with a creator and no title element in
\* the book directory the_dark_forest_02.
C23_Witness ==
    /\ Built
    /\ last.status = "ok"
    /\ book_dir = DarkForest
    /\ opf.kind = "parsed" /\ opf.title = None /\ opf.creators # <<>>
    /\ chapters_txt.title = <<"T", "h", "e", " ", "D", "a", "r", "k", " ", "F", "o", "r", "e", "s", "t", " ", "2">>
    /\ chapters_txt.artist = Some(<<"L", "i", "u", " ", "C", "i", "x", "i", "n">>)

-----------------------------------------------------------------------------
(* Properties of the stages that annotate the manifest. *)

\* The fields the TOC builder writes.
BuilderFields == {"order", "chapter_number", "chapter_title", "chapter_path"}

\* The fields a stage may add.
StageFields(op) ==
    IF op = "copy_chapters_from_toc" THEN {"html"}
    ELSE IF op = "convert_to_markdown" THEN {"markdown", "audio"}
    ELSE {}

\* The stage finds the chapter file of an entry.
ChapterFound(entry) ==
    entry.chapter_path # None /\ Val(entry.chapter_path) \in ChapterFiles

\* C24: a run of copy_chapters_from_toc or convert_to_markdown leaves the
\* persisted manifest with the same entries in the same sequence, the order,
\* chapter_number, chapter_title and chapter_path of each unchanged, and
\* every other field unchanged that is not the stage's own; an entry whose
\* chapter file is missing is left as it was.
C24_StagesOnlyAddFields ==
    [][ last'.op \in {"copy_chapters_from_toc", "convert_to_markdown"}
        => /\ toc_json'.exists = toc_json.exists
           /\ Len(toc_json'.entries) = Len(toc_json.entries)
           /\ \A i \in DOMAIN toc_json.entries :
                 LET before == toc_json.entries[i]
                     after == toc_json'.entries[i]
                 IN  /\ DOMAIN before \subseteq DOMAIN after
                     /\ DOMAIN after \subseteq DOMAIN before \cup StageFields(last'.op)
                     /\ \A f \in DOMAIN before \ StageFields(last'.op) :
                           after[f] = before[f]
                     /\ \A f \in BuilderFields : after[f] = before[f]
                     /\ ~ChapterFound(before) => after = before ]_vars

\* Both stages have run on a manifest of a found and a missing chapter: the
\* found one has the three fields, the missing one none of them.
C24_Witness ==
    /\ last.op = "convert_to_markdown" /\ last.status = "ok"
    /\ Len(toc_json.entries) >= 2
    /\ \E i \in DOMAIN toc_json.entries :
          /\ ChapterFound(toc_json.entries[i])
          /\ {"html", "markdown", "audio"} \subseteq DOMAIN toc_json.entries[i]
    /\ \E i \in DOMAIN toc_json.entries :
          /\ ~ChapterFound(toc_json.entries[i])
          /\ DOMAIN toc_json.entries[i] = BuilderFields

-----------------------------------------------------------------------------
(* Properties of repeated assembly runs. *)

\* C25: an assembly run, ending well or not, leaves json/toc.json as it was,
\* and resolves exactly the entries one of whose tiers matches a file that is
\* there when it runs: an entry the run before left unmatched is resolved
\* once the user has given a file a matching name, without the TOC builder
\* running again.
C25_RerunOnSameManifest ==
    [][ last'.op = "_build_audiobook"
        => /\ toc_json' = toc_json
           /\ \A i \in DOMAIN toc_json.entries :
                 FirstHitOn(toc_json.entries[i], Disk, index') # {}
                     <=> \E j \in DOMAIN resolved'.entries :
                            /\ resolved'.entries[j] = toc_json.entries[i]
                            /\ resolved'.paths[j]
                                  \in FirstHitOn(toc_json.entries[i], Disk, index') ]_vars

\* Two runs with a rename between them: an entry without a stored path that
\* the first run reported unmatched is resolved by the second, on the same
\* manifest.
C25_Witness ==
    /\ Built
    /\ \E i \in DOMAIN prev_warnings :
          /\ "audio" \notin DOMAIN prev_warnings[i]
          /\ \E j \in DOMAIN resolved.entries : resolved.entries[j] = prev_warnings[i]
          /\ \E k \in DOMAIN toc_json.entries : toc_json.entries[k] = prev_warnings[i]
    /\ \E f \in audio_dir.files : f.name \in RenameTargets

\* C26: a run that ends well has invoked the multiplexer once, with both
\* files written: concat.txt lists the N resolved audio files, chapters.txt
\* holds N records, the i-th record carries the title and the duration of the
\* entry whose file is the i-th line, and the entries stand by ascending order.
C26_MuxOnceOnMatchingFiles ==
    Assembled =>
        LET N == Len(resolved.paths)
        IN  /\ Len(mux) = 1
            /\ concat_txt.exists /\ chapters_txt.exists
            /\ mux[1].inputs = N /\ mux[1].chapters = N
            /\ Len(concat_txt.lines) = N
            /\ Len(chapters_txt.chapters) = N
            /\ Len(resolved.entries) = N
            /\ \A i \in 1..N :
                  /\ concat_txt.lines[i] = ConcatLine(resolved.paths[i])
                  /\ resolved.paths[i] \in FirstHit(resolved.entries[i])
                  /\ EndsWith(chapters_txt.chapters[i].title,
                              escape_ffmetadata(RawTitle(i)))
                  /\ chapters_txt.chapters[i].END - chapters_txt.chapters[i].START
                        = ProbedDuration(i)
                  /\ \E k \in DOMAIN toc_json.entries :
                        toc_json.entries[k] = resolved.entries[i]
            /\ \A i, j \in 1..N :
                  i < j => resolved.entries[i].order <= resolved.entries[j].order

\* A manifest listed by descending order whose entries resolve to files of
\* different lengths is assembled into two chapters or more.
C26_Witness ==
    /\ Assembled
    /\ Len(mux) = 1
    /\ Len(resolved.paths) >= 2
    /\ toc_json.entries[1].order > toc_json.entries[2].order
    /\ \E i, j \in DOMAIN resolved.paths : ProbedDuration(i) # ProbedDuration(j)

---------------------------------------------------------------------------
(* Properties of the narration.                                             *)

\* The audio files on a disk of the given directory and files elsewhere.
FilesOf(dir, elsewhere) ==
    FilesOnDisk([exists |-> dir.exists, files |-> dir.files, outside |-> elsewhere])

\* C27: a convert_from_toc call with skip_existing set does not run the
\* generator for an output file that exists when the call starts, and leaves
\* every such file as it was.
C27_ExistingAudioIsSkipped ==
    [][ last'.op = "convert_from_toc" /\ call'.skip_existing
        => \A f \in FilesOf(audio_dir, outside) :
              /\ f.path \notin Range(narrated')
              /\ f \in FilesOf(audio_dir', outside') ]_vars

\* Every entry of the manifest has a chapter number, no two the same, and
\* audio/ holds the files the narration names for the entries and no other.
NarrationNamed ==
    /\ toc_json.exists /\ toc_json.entries # <<>>
    /\ \A i \in DOMAIN toc_json.entries : toc_json.entries[i].chapter_number # None
    /\ \A i, j \in DOMAIN toc_json.entries :
          i # j => toc_json.entries[i].chapter_number # toc_json.entries[j].chapter_number
    /\ audio_dir.exists /\ outside = {}
    /\ {AudioRoot \o f.name : f \in audio_dir.files}
          = {audio_path_from_entry(e) : e \in Range(toc_json.entries)}

\* C28: on such a book directory _build_audiobook resolves every entry to the
\* file the narration names for it: no entry is unmatched and no two entries
\* resolve to the same file.
C28_NarrationNamesResolve ==
    Built /\ NarrationNamed =>
        /\ warnings = <<>>
        /\ Len(resolved.entries) = Len(toc_json.entries)
        /\ \A i \in DOMAIN resolved.paths :
              resolved.paths[i] = audio_path_from_entry(resolved.entries[i])
        /\ \A i, j \in DOMAIN resolved.paths :
              i # j => resolved.paths[i] # resolved.paths[j]

\* C29: after a run of _build_audiobook, ended well or not, concat.txt and
\* chapters.txt, when both exist, hold as many lines as records, and a run
\* that did not end well has left concat.txt as it was next to a
\* chapters.txt of an earlier run.
C29_TxtFilesOfOneRun ==
    [][ last'.op = "_build_audiobook"
        => /\ concat_txt'.exists /\ chapters_txt'.exists
                 => Len(chapters_txt'.chapters) = Len(concat_txt'.lines)
           /\ last'.status # "ok" /\ chapters_txt.exists
                 => concat_txt' = concat_txt ]_vars

\* C29, amended: a run that ends well leaves both files written by itself,
\* one line and one record per resolved file; a run that stops before either
\* is written leaves both as they were; a run stopped by a probe writes its
\* concat.txt and leaves chapters.txt as it was.
C29_TxtFilesPerOutcome ==
    [][ last'.op = "_build_audiobook"
        => LET written == [exists |-> TRUE,
                           lines |-> [i \in DOMAIN resolved'.paths |->
                                         ConcatLine(resolved'.paths[i])]]
           IN  /\ last'.status = "ok"
                     => /\ concat_txt' = written
                        /\ chapters_txt'.exists
                        /\ Len(chapters_txt'.chapters) = Len(concat_txt'.lines)
               /\ last'.status = "FileNotFoundError"
                     => concat_txt' = concat_txt /\ chapters_txt' = chapters_txt
               /\ last'.status = "CalledProcessError"
                     => concat_txt' = written /\ chapters_txt' = chapters_txt ]_vars

\* A run stopped by a probe has left a concat.txt of two lines next to the
\* chapters.txt of one record that the run before it wrote.
C29_Witness ==
    /\ Built /\ last.status = "CalledProcessError"
    /\ chapters_txt.exists /\ concat_txt.exists
    /\ Len(chapters_txt.chapters) = 1
    /\ Len(concat_txt.lines) = 2

---------------------------------------------------------------------------
(* Properties of the extraction.                                            *)

\* C30: an unzip_epub_zip call that finds no extracted directory extracts the
\* archive, whatever overwrite is: on its return the directory holds what
\* the archive holds.
C30_MissingDirIsExtracted ==
    [][ last'.op = "unzip_epub_zip" /\ ncx.kind = "nodir"
        => last'.extracted /\ ncx' \in Archives ]_vars

====
